---- MODULE Spec2Model ----
(***************************************************************************)
(* Model of library/bigip_software.py: the ISO9660 image reader (class     *)
(* ISO9660) at the level of the bytes of the backing store, and the        *)
(* software-management operations of BigIpSoapApi against a device.        *)
(*                                                                         *)
(* Byte strings are sequences of numbers 0..255.  Python exceptions are    *)
(* the field exc of an operator's result ("" when none was raised).        *)
(***************************************************************************)
EXTENDS Integers, Sequences, FiniteSets, TLC

SECTOR_SIZE == 2048

\* Most get_file calls made on one ISO9660 instance.
MaxCalls == 2

Min(a, b) == IF a < b THEN a ELSE b
Max(a, b) == IF a < b THEN b ELSE a

RECURSIVE Pow256(_)
Pow256(n) == IF n = 0 THEN 1 ELSE 256 * Pow256(n - 1)

(***************************************************************************)
(* Encoders used only to lay out the test images.                          *)
(***************************************************************************)
LE(v, w) == [i \in 1..w |-> (v \div Pow256(i - 1)) % 256]
BE(v, w) == [i \in 1..w |-> (v \div Pow256(w - i)) % 256]
Both(v, w) == LE(v, w) \o BE(v, w)
\* the byte string s, zero-filled up to offset off, then the bytes of piece
At(s, off, piece) == s \o [i \in 1..(off - Len(s)) |-> 0] \o piece

\* 2015-06-15 12:30:00, GMT offset 0
RecDate == <<115, 6, 15, 12, 30, 0, 0>>

\* a directory record: 33 fixed bytes, the name, a pad byte after an even name
DirRecBytes(loc, lenLE, lenBE, flags, date, name) ==
    LET l2 == Len(name)
        l0 == 33 + l2 + (IF l2 % 2 = 0 THEN 1 ELSE 0)
    IN  <<l0, 0>> \o Both(loc, 4) \o LE(lenLE, 4) \o BE(lenBE, 4) \o date
          \o <<flags, 0, 0>> \o Both(1, 2) \o <<l2>> \o name
          \o (IF l2 % 2 = 0 THEN <<0>> ELSE <<>>)

DirRec(loc, len, flags, name) == DirRecBytes(loc, len, len, flags, RecDate, name)

\* a path-table entry: 8 fixed bytes, the name, a pad byte after an odd name
PathEntryBytes(loc, parent, name) ==
    <<Len(name), 0>> \o LE(loc, 4) \o LE(parent, 2) \o name
      \o (IF Len(name) % 2 = 1 THEN <<0>> ELSE <<>>)

RECURSIVE Concat(_)
Concat(ss) == IF ss = <<>> THEN <<>> ELSE Head(ss) \o Concat(Tail(ss))

\* names, as ASCII
nmSelf == <<0>>
nmParent == <<1>>
nmX == <<88>>
nmY == <<89>>
nmZ == <<90>>
nmAB == <<65, 66>>
nmF == <<70>>
nmG == <<71>>
nmH == <<72>>
nmNO == <<78, 79>>
nmW == <<87>>
nmP == <<80>>
nmQ == <<81>>
nmMETA == <<77, 69, 84, 65, 68, 65, 84, 65, 46, 88, 77, 76>>
sfx1 == <<59, 49>>
sfx2 == <<59, 50>>
slash == <<47>>

\* sectors of the test images
Lay == [pt |-> 20, root |-> 21, x |-> 22, y |-> 23, xy |-> 24, xyab |-> 25,
        z |-> 26, meta |-> 27, f |-> 28, g |-> 29, h |-> 30, end |-> 31]

FullSize == Lay.end * SECTOR_SIZE

\* An image is [size, sectors]: sectors[n + 1] holds the bytes of sector n up
\* to its last byte that is not zero.
DirSector(sec, parentSec, children) ==
    DirRec(sec, SECTOR_SIZE, 2, nmSelf) \o DirRec(parentSec, SECTOR_SIZE, 2, nmParent)
      \o Concat(children)

\* a Primary Volume Descriptor whose root directory record names sector root
PvdSectorAt(ptLE, ptBE, root) ==
    LET a == At(<<1, 67, 68, 48, 48, 49, 1>>, 80, Both(Lay.end, 4))
        b == At(a, 120, Both(1, 2) \o Both(1, 2) \o Both(SECTOR_SIZE, 2))
        c == At(b, 132, LE(ptLE, 4) \o BE(ptBE, 4))
        d == At(c, 140, LE(Lay.pt, 4))
        e == At(d, 148, BE(Lay.pt, 4))
        f == At(e, 156, DirRec(root, SECTOR_SIZE, 2, nmSelf))
    IN  At(f, 881, <<1>>)

PvdSector(ptLE, ptBE) == PvdSectorAt(ptLE, ptBE, Lay.root)

\* the volume descriptor set, sectors 16 to 19
VdArea(vds, ptLE, ptBE) ==
    CASE vds = "plain" -> <<PvdSector(ptLE, ptBE), <<255>>, <<>>, <<>> >>
      [] vds = "extra" -> << <<0>>, PvdSector(ptLE, ptBE), <<2>>, <<255>> >>
      [] vds = "noterm" -> <<PvdSector(ptLE, ptBE), <<>>, <<>>, <<>> >>
      [] vds = "nopvd" -> << <<2>>, <<255>>, <<>>, <<>> >>
      \* a second type-1 descriptor, whose root directory record names /X
      [] vds = "twopvd" -> <<PvdSector(ptLE, ptBE), <<2>>,
                             PvdSectorAt(ptLE, ptBE, Lay.x), <<255>> >>

PathTableBytes(withZ) ==
    PathEntryBytes(Lay.root, 1, nmSelf) \o PathEntryBytes(Lay.x, 1, nmX)
      \o PathEntryBytes(Lay.y, 1, nmY)
      \o (IF withZ THEN PathEntryBytes(Lay.z, 1, nmZ) ELSE <<>>)
      \o PathEntryBytes(Lay.xy, 2, nmY)
      \o PathEntryBytes(Lay.xyab, IF withZ THEN 5 ELSE 4, nmAB)

\* sectors 21 to 30: the directories, then /METADATA.XML;1 (3 bytes),
\* /Y/F;1, /X/Y/AB/G;1 and /Z/H;2 (2 bytes each); /Z/H;1 shares G's extent
Tree(metaLenLE, metaLenBE) ==
    << DirSector(Lay.root, Lay.root,
                 << DirRec(Lay.x, SECTOR_SIZE, 2, nmX), DirRec(Lay.y, SECTOR_SIZE, 2, nmY),
                    DirRec(Lay.z, SECTOR_SIZE, 2, nmZ),
                    DirRecBytes(Lay.meta, metaLenLE, metaLenBE, 0, RecDate,
                                nmMETA \o sfx1) >>),
       DirSector(Lay.x, Lay.root, << DirRec(Lay.xy, SECTOR_SIZE, 2, nmY) >>),
       DirSector(Lay.y, Lay.root, << DirRec(Lay.f, 2, 0, nmF \o sfx1) >>),
       DirSector(Lay.xy, Lay.x, << DirRec(Lay.xyab, SECTOR_SIZE, 2, nmAB) >>),
       DirSector(Lay.xyab, Lay.xy, << DirRec(Lay.g, 2, 0, nmG \o sfx1) >>),
       DirSector(Lay.z, Lay.root, << DirRec(Lay.h, 2, 0, nmH \o sfx2),
                                     DirRec(Lay.g, 2, 0, nmH \o sfx1) >>),
       <<60, 97, 62>>, <<70, 49>>, <<71, 50>>, <<72, 51>> >>

\* a record of declared length l0 with the fields of rec: the bytes past the
\* name are its system-use area
Stretch(rec, l0) == <<l0>> \o Tail(rec) \o [i \in 1..(l0 - Len(rec)) |-> 0]

\* /W, a directory of two sectors at the end of the image, not in the path
\* table.  "pad": P;1, padding to the end of the first sector, Q;1 in the
\* second.  "odd": records of odd length fill the first sector up to its last
\* byte, which is a null record; Q;1 in the second.  "short": the record of
\* P;1 declares a length of 20, less than its 36 bytes, and the record of
\* F;1 follows it; Q;1 in the second.
WideDir(wide) ==
    LET head == DirRec(Lay.end, 2 * SECTOR_SIZE, 2, nmSelf)
                  \o DirRec(Lay.root, SECTOR_SIZE, 2, nmParent)
        recP == DirRec(Lay.f, 2, 0, nmP \o sfx1)
    IN  << IF wide = "pad" THEN head \o recP
           ELSE IF wide = "short"
           THEN head \o Stretch(recP, 20) \o DirRec(Lay.f, 2, 0, nmF \o sfx1)
           ELSE head \o Concat([i \in 1..7 |-> Stretch(recP, 255)]) \o Stretch(recP, 194),
           DirRec(Lay.g, 2, 0, nmQ \o sfx1) >>

WideSize == (Lay.end + 2) * SECTOR_SIZE

\* p: [vds, size, ptLE, ptBE, withZ, metaLenLE, metaLenBE, wide]
ImageOf(p) ==
    [size |-> p.size,
     sectors |-> [i \in 1..16 |-> <<>>] \o VdArea(p.vds, p.ptLE, p.ptBE)
                   \o <<PathTableBytes(p.withZ)>>
                   \o (IF p.wide = "no" THEN Tree(p.metaLenLE, p.metaLenBE)
                       ELSE << Head(Tree(p.metaLenLE, p.metaLenBE))
                                 \o DirRec(Lay.end, 2 * SECTOR_SIZE, 2, nmW) >>
                              \o Tail(Tree(p.metaLenLE, p.metaLenBE))
                              \o WideDir(p.wide))]

PtLen(withZ) == Len(PathTableBytes(withZ))

Good == [vds |-> "plain", size |-> FullSize, ptLE |-> PtLen(TRUE), ptBE |-> PtLen(TRUE),
         withZ |-> TRUE, metaLenLE |-> 3, metaLenBE |-> 3, wide |-> "no"]

ImageParams ==
    << Good,
       [Good EXCEPT !.vds = "extra"],
       [Good EXCEPT !.withZ = FALSE, !.ptLE = PtLen(FALSE), !.ptBE = PtLen(FALSE)],
       \* no terminator: the store ends after the PVD sector, or after the last file
       [Good EXCEPT !.vds = "noterm", !.size = 17 * SECTOR_SIZE],
       [Good EXCEPT !.vds = "noterm"],
       [Good EXCEPT !.vds = "nopvd"],
       \* both-endian halves differ: path_table_size, a file's extent length
       [Good EXCEPT !.ptBE = PtLen(TRUE) + 1],
       [Good EXCEPT !.metaLenBE = 2],
       \* declared path-table size cuts the last entry: in its name, in its header
       [Good EXCEPT !.ptLE = PtLen(TRUE) - 1, !.ptBE = PtLen(TRUE) - 1],
       [Good EXCEPT !.ptLE = PtLen(TRUE) - 5, !.ptBE = PtLen(TRUE) - 5],
       \* the store ends inside the path table: in the last name, in the last header
       [Good EXCEPT !.size = Lay.pt * SECTOR_SIZE + PtLen(TRUE) - 1],
       [Good EXCEPT !.size = Lay.pt * SECTOR_SIZE + PtLen(TRUE) - 5],
       \* the store ends inside the extent of /METADATA.XML, and right before it
       [Good EXCEPT !.size = Lay.meta * SECTOR_SIZE + 2],
       [Good EXCEPT !.size = Lay.meta * SECTOR_SIZE],
       \* two Primary Volume Descriptors
       [Good EXCEPT !.vds = "twopvd"],
       \* a directory of two sectors: padded, and filled to the last byte
       [Good EXCEPT !.wide = "pad", !.size = WideSize],
       [Good EXCEPT !.wide = "odd", !.size = WideSize],
       \* a record that declares less than its fixed fields and name take
       [Good EXCEPT !.wide = "short", !.size = WideSize] >>

Images == [i \in DOMAIN ImageParams |-> ImageOf(ImageParams[i])]
Urls == DOMAIN ImageParams

\* files maps a url to the file there, [size, sectors]; no operation writes it.
VARIABLE files

\* the byte of the backing store at an offset below its size
ByteAt(url, off) ==
    LET t == files[url].sectors[(off \div SECTOR_SIZE) + 1]
        i == off % SECTOR_SIZE
    IN  IF i < Len(t) THEN t[i + 1] ELSE 0

(***************************************************************************)
(* The ISO9660 object is the record self: [url, debug, buff, root, pvd,    *)
(* paths].  buff is the StringIO over the bytes last read: the bytes of    *)
(* the store from offset start, len of them, read up to pos.  debug is     *)
(* __debug__: assert statements are compiled in only when it is TRUE.      *)
(***************************************************************************)
None == [none |-> TRUE]
EmptyDict == [k \in {} |-> 0]
Put(d, k, v) == [kk \in DOMAIN d \cup {k} |-> IF kk = k THEN v ELSE d[kk]]

\* F applied to the value of e, which is computed once
Bind(e, F(_)) == CHOOSE r \in {F(v) : v \in {e}} : TRUE

R(self, val, exc) == [self |-> self, val |-> val, exc |-> exc]

\* a reader that keeps the buffer it has when the same read is asked again
get_sector_file_cached(self, sector, length) ==
    LET start == sector * SECTOR_SIZE
        rest == Max(0, files[self.url].size - start)
        n == IF length < 0 THEN rest ELSE Min(length, rest)
    IN  IF self.buff.start = start /\ self.buff.len = n /\ self.buff.pos > 0
        THEN self
        ELSE [self EXCEPT !.buff = [start |-> start, len |-> n, pos |-> 0]]

\* f.seek(sector*SECTOR_SIZE); f.read(length): a read past the end is short
get_sector_file(self, sector, length) ==
    LET start == sector * SECTOR_SIZE
        rest == Max(0, files[self.url].size - start)
        n == IF length < 0 THEN rest ELSE Min(length, rest)
    IN  [self EXCEPT !.buff = [start |-> start, len |-> n, pos |-> 0]]

\* StringIO.read(l)
unpack_raw(self, l) ==
    LET b == self.buff
        n == IF l < 0 THEN b.len - b.pos ELSE Min(l, b.len - b.pos)
    IN  R([self EXCEPT !.buff.pos = b.pos + n],
          [i \in 1..n |-> ByteAt(self.url, b.start + b.pos + i - 1)], "")

RECURSIVE RStrip(_, _)
RStrip(s, c) ==
    IF s # <<>> /\ s[Len(s)] = c THEN RStrip(SubSeq(s, 1, Len(s) - 1), c) ELSE s

unpack_string(self, l) ==
    Bind(unpack_raw(self, l), LAMBDA r : R(r.self, RStrip(r.val, 32), ""))

\* struct formats: byte order, size, signedness
Fmt(st) ==
    CASE st = "B" -> [big |-> FALSE, size |-> 1, signed |-> FALSE]
      [] st = "<H" -> [big |-> FALSE, size |-> 2, signed |-> FALSE]
      [] st = "<h" -> [big |-> FALSE, size |-> 2, signed |-> TRUE]
      [] st = ">h" -> [big |-> TRUE, size |-> 2, signed |-> TRUE]
      [] st = "<I" -> [big |-> FALSE, size |-> 4, signed |-> FALSE]
      [] st = ">I" -> [big |-> TRUE, size |-> 4, signed |-> FALSE]
      [] st = "<i" -> [big |-> FALSE, size |-> 4, signed |-> TRUE]
      [] st = ">i" -> [big |-> TRUE, size |-> 4, signed |-> TRUE]

Reverse(s) == [i \in 1..Len(s) |-> s[Len(s) + 1 - i]]

RECURSIVE ValLE(_, _)
ValLE(bs, n) == IF n = 0 THEN 0 ELSE bs[n] * Pow256(n - 1) + ValLE(bs, n - 1)

\* the integer a byte string encodes, least significant byte first
StructVal(bs, signed) ==
    LET n == Len(bs)
    IN  IF signed /\ bs[n] >= 128 THEN (bs[n] - 256) * Pow256(n - 1) + ValLE(bs, n - 1)
        ELSE ValLE(bs, n)

\* struct.unpack(st, self._buff.read(struct.calcsize(st)))
unpack(self, st) ==
    Bind(unpack_raw(self, Fmt(st).size),
         LAMBDA r : IF Len(r.val) < Fmt(st).size THEN R(r.self, 0, "struct.error")
                    ELSE R(r.self,
                           StructVal(IF Fmt(st).big THEN Reverse(r.val) ELSE r.val,
                                     Fmt(st).signed), ""))

\* the value unpack_both returns once both halves are decoded
BothResult(self, a, b) ==
    IF self.debug /\ a # b THEN R(self, 0, "AssertionError") ELSE R(self, a, "")

\* both-endian: a, b = unpack('<'+st), unpack('>'+st); assert a == b; return a
unpack_both(self, st) ==
    Bind(unpack(self, IF st = "i" THEN "<i" ELSE IF st = "h" THEN "<h" ELSE "<I"),
         LAMBDA a :
           IF a.exc # "" THEN a
           ELSE Bind(unpack(a.self,
                            IF st = "i" THEN ">i" ELSE IF st = "h" THEN ">h" ELSE ">I"),
                     LAMBDA b : IF b.exc # "" THEN b
                                ELSE BothResult(b.self, a.val, b.val)))

unpack_vd_datetime(self) == unpack_raw(self, 17)

DaysIn(y, m) ==
    IF m \in {4, 6, 9, 11} THEN 30
    ELSE IF m # 2 THEN 31
    ELSE IF y % 4 = 0 /\ (y % 100 # 0 \/ y % 400 = 0) THEN 29 ELSE 28

\* datetime.datetime(*t) accepts the calendar fields t
DateOk(t) ==
    /\ t[2] \in 1..12
    /\ t[3] \in 1..DaysIn(t[1], t[2])
    /\ Len(t) >= 4 => t[4] \in 0..23
    /\ Len(t) >= 5 => t[5] \in 0..59
    /\ Len(t) >= 6 => t[6] \in 0..59

\* the 7-byte timestamp of a directory record.  The value kept is the
\* calendar fields and the GMT offset in seconds.
DirDate(self, date) ==
    LET n == Len(date)
        last == IF date[n] >= 128 THEN date[n] - 256 ELSE date[n]
        t == [i \in 1..(n - 1) |-> IF i = 1 THEN date[i] + 1900 ELSE date[i]]
    IN  IF n = 0 THEN R(self, <<>>, "IndexError")
        ELSE IF n < 4 THEN R(self, <<>>, "TypeError")
        ELSE IF ~DateOk(t) THEN R(self, <<>>, "ValueError")
        ELSE R(self, [t |-> t, offset |-> last * 15 * 60], "")

unpack_dir_datetime(self) ==
    Bind(unpack_raw(self, 7), LAMBDA r : DirDate(r.self, r.val))

\* str.split(';')[0]
RECURSIVE SplitFirst(_, _)
SplitFirst(s, c) ==
    IF s = <<>> \/ Head(s) = c THEN <<>> ELSE <<Head(s)>> \o SplitFirst(Tail(s), c)

(***************************************************************************)
(* A run of fixed-layout fields is decoded in order into a dict d by       *)
(* Decode, which threads the state [self, exc, d] and stops at the first   *)
(* exception.  A field is [k, t, a]: the key it is stored under ("" when   *)
(* the value is dropped), the decoder, and its format or length.           *)
(***************************************************************************)
Fld(k, t, a) == [k |-> k, t |-> t, a |-> a]

ReadField(self, f) ==
    CASE f.t = "u" -> unpack(self, f.a)
      [] f.t = "both" -> unpack_both(self, f.a)
      [] f.t = "str" -> unpack_string(self, f.a)
      [] f.t = "raw" -> unpack_raw(self, f.a)
      [] f.t = "vd_datetime" -> unpack_vd_datetime(self)
      [] f.t = "dir_datetime" -> unpack_dir_datetime(self)

DoField(s, f) ==
    Bind(ReadField(s.self, f),
         LAMBDA r : IF r.exc # "" THEN [self |-> r.self, exc |-> r.exc, d |-> s.d]
                    ELSE [self |-> r.self, exc |-> "",
                          d |-> IF f.k = "" THEN s.d ELSE Put(s.d, f.k, r.val)])

\* the fields from the i-th on
RECURSIVE DecodeFrom(_, _, _)
DecodeFrom(s, fields, i) ==
    IF i > Len(fields) \/ s.exc # "" THEN s
    ELSE Bind(DoField(s, fields[i]), LAMBDA t : DecodeFrom(t, fields, i + 1))

Decode(s, fields) == DecodeFrom(s, fields, 1)

Dec(self, d) == [self |-> self, exc |-> "", d |-> d]

\* the name kept as stored, version suffix and all
RecordName_stored(raw) ==
    LET n == RStrip(raw, 32) IN IF n = <<0>> THEN <<>> ELSE n

\* the name of a record: the version suffix dropped, '\x00' made ''
RecordName(raw) ==
    LET n == SplitFirst(RStrip(raw, 32), 59) IN IF n = <<0>> THEN <<>> ELSE n

\* the fields of a directory record after its length byte, up to the name
RecordFields ==
    << Fld("", "u", "B"), Fld("ex_loc", "both", "I"), Fld("ex_len", "both", "I"),
       Fld("datetime", "dir_datetime", 0), Fld("flags", "u", "B"),
       Fld("interleave_unit_size", "u", "B"), Fld("interleave_gap_size", "u", "B"),
       Fld("volume_sequence", "both", "h"), Fld("l2", "u", "B") >>

\* the name, the pad byte after an even name, the bytes left of the l0 declared
RecordTail(l0, l2) ==
    << Fld("stored", "raw", l2) >>
      \o (IF l2 % 2 = 0 THEN << Fld("", "u", "B") >> ELSE <<>>)
      \o (IF l0 - (34 + l2 - (l2 % 2)) > 0
          THEN << Fld("", "raw", l0 - (34 + l2 - (l2 % 2))) >> ELSE <<>>)

RecOut(self, read, data, exc, stored) ==
    [self |-> self, read |-> read, data |-> data, exc |-> exc, stored |-> stored]

\* the dict d of a decoded record
RecordDict(d) ==
    [k \in (DOMAIN d \ {"l2", "stored"}) \cup {"name"} |->
        IF k = "name" THEN RecordName(d["stored"]) ELSE d[k]]

\* a record of declared length l0 > 0, after its length byte
RecordBody(self, read, l0) ==
    Bind(Decode(Dec(self, EmptyDict), RecordFields),
         LAMBDA fx :
           IF fx.exc # "" THEN RecOut(fx.self, read, None, fx.exc, <<>>)
           ELSE Bind(Decode(fx, RecordTail(l0, fx.d["l2"])),
                     LAMBDA nm :
                       IF nm.exc # "" THEN RecOut(nm.self, read, None, nm.exc, <<>>)
                       ELSE RecOut(nm.self, read + l0, RecordDict(nm.d), "",
                                   nm.d["stored"])))

\* Unpack a directory record; stored is the name as the image holds it.
unpack_record(self, read) ==
    Bind(unpack(self, "B"),
         LAMBDA h : IF h.exc # "" THEN RecOut(h.self, read, None, h.exc, <<>>)
                    ELSE IF h.val = 0 THEN RecOut(h.self, read + 1, None, "", <<>>)
                    ELSE RecordBody(h.self, read, h.val))

PvdHead ==
    << Fld("type_code", "str", 5), Fld("standard_identifier", "u", "B"),
       Fld("", "raw", 1), Fld("system_identifier", "str", 32),
       Fld("volume_identifier", "str", 32), Fld("", "raw", 8),
       Fld("volume_space_size", "both", "i"), Fld("", "raw", 32),
       Fld("volume_set_size", "both", "h"), Fld("volume_seq_num", "both", "h"),
       Fld("logical_block_size", "both", "h"), Fld("path_table_size", "both", "i"),
       Fld("path_table_l_loc", "u", "<i"), Fld("path_table_opt_l_loc", "u", "<i"),
       Fld("path_table_m_loc", "u", ">i"), Fld("path_table_opt_m_loc", "u", ">i") >>

PvdTail ==
    << Fld("volume_set_identifer", "str", 128), Fld("publisher_identifier", "str", 128),
       Fld("data_preparer_identifier", "str", 128),
       Fld("application_identifier", "str", 128),
       Fld("copyright_file_identifier", "str", 38),
       Fld("abstract_file_identifier", "str", 36),
       Fld("bibliographic_file_identifier", "str", 37),
       Fld("volume_datetime_created", "vd_datetime", 0),
       Fld("volume_datetime_modified", "vd_datetime", 0),
       Fld("volume_datetime_expires", "vd_datetime", 0),
       Fld("volume_datetime_effective", "vd_datetime", 0),
       Fld("file_structure_version", "u", "B") >>

\* Unpack the Primary Volume Descriptor into self.pvd and self.root; an
\* exception leaves the fields decoded before it.
unpack_pvd(self) ==
    Bind(Decode(Dec(self, self.pvd), PvdHead),
         LAMBDA hd :
           IF hd.exc # "" THEN R([hd.self EXCEPT !.pvd = hd.d], 0, hd.exc)
           ELSE Bind(unpack_record(hd.self, 0),
                     LAMBDA rr :
                       IF rr.exc # "" THEN R([rr.self EXCEPT !.pvd = hd.d], 0, rr.exc)
                       ELSE Bind(Decode(Dec([rr.self EXCEPT !.root = rr.data], hd.d),
                                        PvdTail),
                                 LAMBDA tl : R([tl.self EXCEPT !.pvd = tl.d], 0, tl.exc))))

(***************************************************************************)
(* _unpack_dir_children(d) is a generator.  Its frame is g: [started, d,   *)
(* sector, read, ex_len]; GenNext runs it to its next yield ("yield"), to  *)
(* its end ("stop") or to an exception ("raise").                          *)
(***************************************************************************)
GenNew(d) == [started |-> FALSE, d |-> d, sector |-> 0, read |-> 0, ex_len |-> 0]

GenOut(self, g, kind, data, exc, stored) ==
    [self |-> self, g |-> g, kind |-> kind, data |-> data, exc |-> exc, stored |-> stored]

\* a reader of the padding that leaves the counter where it was
SkipPadding_uncounted(self, read) ==
    Bind(unpack_raw(self, 2048 - (read % 2048)),
         LAMBDA sk : [self |-> sk.self, read |-> read - 1])

\* a null record: the rest of the sector is read and counted
SkipPadding(self, read) ==
    Bind(unpack_raw(self, 2048 - (read % 2048)),
         LAMBDA sk : [self |-> sk.self, read |-> read + (2048 - (read % 2048))])

\* the while loop, entered at its test
RECURSIVE GenLoop(_, _)
GenLoop(self, g) ==
    IF ~(g.read < g.ex_len) THEN GenOut(self, g, "stop", None, "", <<>>)
    ELSE Bind([g EXCEPT !.sector = IF g.read % 2048 = 0 THEN @ + 1 ELSE @],
              LAMBDA g1 :
         Bind(unpack_record(IF g.read % 2048 = 0
                            THEN get_sector_file(self, g1.sector, 2048) ELSE self,
                            g.read),
              LAMBDA r :
                IF r.exc # "" THEN GenOut(r.self, g1, "raise", None, r.exc, <<>>)
                ELSE IF r.data = None
                THEN Bind(SkipPadding(r.self, r.read),
                          LAMBDA sk : GenLoop(sk.self, [g1 EXCEPT !.read = sk.read]))
                ELSE GenOut(r.self, [g1 EXCEPT !.read = r.read], "yield", r.data, "",
                            r.stored)))

\* the generator's code before its loop
GenStart(self, g) ==
    IF g.d = None THEN GenOut(self, g, "raise", None, "TypeError", <<>>)
    ELSE Bind([g EXCEPT !.started = TRUE, !.sector = g.d["ex_loc"]],
              LAMBDA g1 :
         Bind(unpack_record(get_sector_file(self, g1.sector, 2048), 0),
              LAMBDA r_self :
                IF r_self.exc # ""
                THEN GenOut(r_self.self, g1, "raise", None, r_self.exc, <<>>)
                ELSE Bind(unpack_record(r_self.self, r_self.read),
                          LAMBDA r_parent :
                            IF r_parent.exc # ""
                            THEN GenOut(r_parent.self, g1, "raise", None,
                                        r_parent.exc, <<>>)
                            ELSE IF r_self.data = None
                            THEN GenOut(r_parent.self, g1, "raise", None,
                                        "TypeError", <<>>)
                            ELSE GenLoop(r_parent.self,
                                         [g1 EXCEPT !.read = r_parent.read,
                                                    !.ex_len = r_self.data["ex_len"]]))))

GenNext(self, g) == IF g.started THEN GenLoop(self, g) ELSE GenStart(self, g)

\* Search for one child amongst the children
RECURSIVE SearchLoop(_, _, _)
SearchLoop(self, g, term) ==
    Bind(GenNext(self, g),
         LAMBDA n : IF n.kind = "raise" THEN R(n.self, None, n.exc)
                    ELSE IF n.kind = "stop" THEN R(n.self, None, "ISO9660IOError")
                    ELSE IF n.data["name"] = term THEN R(n.self, n.data, "")
                    ELSE SearchLoop(n.self, n.g, term))

search_dir_children(self, d, term) == SearchLoop(self, GenNew(d), term)

\* all the children the generator yields, each with its stored name, and how
\* the iteration ended
RECURSIVE ListLoop(_, _, _)
ListLoop(self, g, acc) ==
    Bind(GenNext(self, g),
         LAMBDA n : IF n.kind = "yield"
                    THEN ListLoop(n.self, n.g,
                                  Append(acc, [data |-> n.data, stored |-> n.stored]))
                    ELSE [children |-> acc, exc |-> n.exc])

unpack_dir_children(self, d) == ListLoop(self, GenNew(d), <<>>)

\* list[i] for a Python index i (0-based, negative from the end)
PyInRange(list, i) == i < Len(list) /\ i >= 0 - Len(list)
PyItem(list, i) == IF i >= 0 THEN list[i + 1] ELSE list[Len(list) + 1 + i]

\* the while loop of _dir_record_by_table for the candidate entry at index i
\* and the n segments of path not yet popped:
\* "return", "next" (the loop ended without a return) or "IndexError"
RECURSIVE TableChain(_, _, _, _)
TableChain(paths, f, path, n) ==
    IF n = 0 THEN "IndexError"
    ELSE IF f["name"] # path[n] THEN "next"
    ELSE IF ~PyInRange(paths, f["parent"] - 1) THEN "IndexError"
    ELSE Bind(PyItem(paths, f["parent"] - 1),
              LAMBDA f2 : IF f2["parent"] = 1 THEN "return"
                          ELSE TableChain(paths, f2, path, n - 1))

\* e['ex_len'] = SECTOR_SIZE; return e
TableHit(self, i) ==
    Bind(Put(self.paths[i], "ex_len", SECTOR_SIZE),
         LAMBDA e : R([self EXCEPT !.paths[i] = e], e, ""))

\* for e in self._paths[::-1], from entry i down
RECURSIVE TableScan(_, _, _)
TableScan(self, i, path) ==
    IF i = 0 THEN R(self, None, "ISO9660IOError")
    ELSE Bind(TableChain(self.paths, self.paths[i], path, Len(path)),
              LAMBDA c : IF c = "return" THEN TableHit(self, i)
                         ELSE IF c = "IndexError" THEN R(self, None, "IndexError")
                         ELSE TableScan(self, i - 1, path))

\* Return the record for final directory in a path
dir_record_by_table(self, path) == TableScan(self, Len(self.paths), path)

RECURSIVE RootWalk(_, _, _, _)
RootWalk(self, current, path, i) ==
    IF i > Len(path) THEN R(self, current, "")
    ELSE Bind(search_dir_children(self, current, path[i]),
              LAMBDA r : IF r.exc # "" THEN r ELSE RootWalk(r.self, r.val, path, i + 1))

dir_record_by_root(self, path) == RootWalk(self, self.root, path, 1)

\* str.upper(), str.strip('/'), str.split('/')
Upper(s) == [i \in 1..Len(s) |-> IF s[i] \in 97..122 THEN s[i] - 32 ELSE s[i]]

RECURSIVE LStrip(_, _)
LStrip(s, c) == IF s # <<>> /\ Head(s) = c THEN LStrip(Tail(s), c) ELSE s
Strip(s, c) == RStrip(LStrip(s, c), c)

\* the segments of s from position i on, cur being the segment begun
RECURSIVE SplitAcc(_, _, _, _)
SplitAcc(s, c, i, cur) ==
    IF i > Len(s) THEN <<cur>>
    ELSE IF s[i] = c THEN <<cur>> \o SplitAcc(s, c, i + 1, <<>>)
    ELSE Bind(Append(cur, s[i]), LAMBDA cur2 : SplitAcc(s, c, i + 1, cur2))
Split(s, c) == SplitAcc(s, c, 1, <<>>)

\* the directory get_file looks the file up in
ParentDir(self, path) ==
    IF Len(path) = 0 THEN R(self, self.root, "")
    ELSE Bind(dir_record_by_table(self, path),
              LAMBDA t : IF t.exc = "ISO9660IOError"
                         THEN dir_record_by_root(t.self, path) ELSE t)

\* self._get_sector(f['ex_loc'], f['ex_len']); return self._unpack_raw(f['ex_len'])
ReadExtent(self, f) ==
    unpack_raw(get_sector_file(self, f["ex_loc"], f["ex_len"]), f["ex_len"])

\* get_file once the path is split
GetSegs(self, segs) ==
    Bind(ParentDir(self, SubSeq(segs, 1, Len(segs) - 1)),
         LAMBDA p :
           IF p.exc # "" THEN R(p.self, <<>>, p.exc)
           ELSE Bind(search_dir_children(p.self, p.val, segs[Len(segs)]),
                     LAMBDA f : IF f.exc # "" THEN R(f.self, <<>>, f.exc)
                                ELSE ReadExtent(f.self, f.val)))

\* Retrieve file contents as a string
get_file(self, pathname) ==
    Bind(Split(Strip(Upper(pathname), 47), 47), LAMBDA segs : GetSegs(self, segs))

\* the name and the pad byte of a path-table entry, after its 8 fixed bytes
PathEntryName(hd) ==
    Bind(Decode(hd, << Fld("name", "str", hd.d["l1"]) >>
                      \o (IF hd.d["l1"] % 2 = 1 THEN << Fld("", "u", "B") >> ELSE <<>>)),
         LAMBDA nm :
           IF nm.exc # "" THEN R(nm.self, None, nm.exc)
           ELSE R(nm.self,
                  [p |-> [ex_loc |-> nm.d["ex_loc"], parent |-> nm.d["parent"],
                          name |-> IF nm.d["name"] = <<0>> THEN <<>> ELSE nm.d["name"]],
                   l1 |-> nm.d["l1"]], ""))

\* one turn of the path-table loop of __init__: the entry p and its l1
path_table_entry(self) ==
    Bind(Decode(Dec(self, EmptyDict),
                << Fld("l1", "u", "B"), Fld("l2", "u", "B"),
                   Fld("ex_loc", "u", "<I"), Fld("parent", "u", "<H") >>),
         LAMBDA hd : IF hd.exc # "" THEN R(hd.self, None, hd.exc) ELSE PathEntryName(hd))

(***************************************************************************)
(* The paths asked for.                                                    *)
(***************************************************************************)
nmSUCH == <<83, 85, 67, 72>>
nmPATH == <<80, 65, 84, 72>>
Lower(s) == [i \in 1..Len(s) |-> IF s[i] \in 65..90 THEN s[i] + 32 ELSE s[i]]

RECURSIVE Join(_)
Join(segs) == IF segs = <<>> THEN <<>> ELSE slash \o Head(segs) \o Join(Tail(segs))

PathNames ==
    { Join(<<nmMETA>>), Lower(Join(<<nmMETA>>)), Join(<<nmY, nmF>>),
      Join(<<nmX, nmY, nmAB, nmG>>), Join(<<nmAB, nmG>>), Join(<<nmZ, nmH>>),
      Join(<<nmNO, nmSUCH, nmPATH>>), Join(<<nmX, nmNO>>), Join(<<nmY>>),
      Join(<<nmW, nmQ>>) }

(***************************************************************************)
(* State.  iso is the ISO9660 object under construction or in use; pc is   *)
(* where its constructor stands ("scan", "pathtable_init", "pathtable",    *)
(* "ready", "failed"); sector and l0 are the constructor's locals; ctorExc *)
(* is the exception the constructor raised.  opened is the object as the   *)
(* constructor left it; ncalls, lastPath and lastOut record the get_file   *)
(* calls made since.                                                       *)
(***************************************************************************)
VARIABLES iso, pc, sector, l0, ctorExc, opened, ncalls, lastSelf, lastPath, lastOut

isoVars == <<files, iso, pc, sector, l0, ctorExc, opened, ncalls, lastSelf, lastPath, lastOut>>

\* the device part, which stands still while the reader runs
VARIABLES params, devSoft, devHot, devStatus, devBoot, spc, total, changed, calls, outcome

softVars == <<params, devSoft, devHot, devStatus, devBoot, spc, total, changed, calls, outcome>>

\* bigip_device_dns: the module's parameters, the device's DNS settings, the
\* status codes of its answers to the reads, what read() returned, where
\* present() stands, the requests that change the device, and changed
VARIABLES dnsParams, dnsDev, dnsStatus, dnsCurrent, dnsPc, dnsSent, dnsChanged

dnsVars == <<dnsParams, dnsDev, dnsStatus, dnsCurrent, dnsPc, dnsSent, dnsChanged>>

\* the generators of _unpack_dir_children that a caller holds: gens[k] is
\* [g, out, end], the frame, the stored names yielded so far and how the
\* generator ended ("" while it has not)
VARIABLE gens

genVars == <<gens>>

\* upload(filename): the size of the file and the position of fh, the locals
\* first and done, the chain_type and the length of the data of every
\* upload_file call, and where upload stands
VARIABLES upSize, upPos, upFirst, upDone, upSent, upPc

upVars == <<upSize, upPos, upFirst, upDone, upSent, upPc>>

NoOut == [val |-> <<>>, exc |-> "none"]

NewIso(url, debug) ==
    [url |-> url, debug |-> debug, buff |-> [start |-> 0, len |-> 0, pos |-> 0],
     root |-> None, pvd |-> EmptyDict, paths |-> <<>>]

IsoInit ==
    /\ \E u \in Urls, dbg \in BOOLEAN :
          /\ files = [v \in {u} |-> Images[v]]
          /\ iso = NewIso(u, dbg)
    /\ pc = "scan"
    /\ sector = 16
    /\ l0 = 0
    /\ ctorExc = ""
    /\ opened = None
    /\ ncalls = 0
    /\ lastSelf = None
    /\ lastPath = <<>>
    /\ lastOut = NoOut

\* a turn that takes no sector for the terminator
ScanTurn_unending(self, sec) ==
    Bind(unpack(get_sector_file(self, sec, SECTOR_SIZE), "B"),
         LAMBDA ty :
           IF ty.exc # "" THEN [self |-> ty.self, exc |-> ty.exc, brk |-> FALSE]
           ELSE IF ty.val = 1
           THEN Bind(unpack_pvd(ty.self),
                     LAMBDA pvd : [self |-> pvd.self, exc |-> pvd.exc, brk |-> FALSE])
           ELSE [self |-> ty.self, exc |-> "", brk |-> FALSE])

\* the outcome of one turn of the volume-descriptor loop
ScanTurn(self, sec) ==
    Bind(unpack(get_sector_file(self, sec, SECTOR_SIZE), "B"),
         LAMBDA ty :
           IF ty.exc # "" THEN [self |-> ty.self, exc |-> ty.exc, brk |-> FALSE]
           ELSE IF ty.val = 1
           THEN Bind(unpack_pvd(ty.self),
                     LAMBDA pvd : [self |-> pvd.self, exc |-> pvd.exc, brk |-> FALSE])
           ELSE [self |-> ty.self, exc |-> "", brk |-> ty.val = 255])

\* one turn of the volume-descriptor loop
ScanStep ==
    /\ pc = "scan"
    /\ sector' = sector + 1
    /\ \E r \in {ScanTurn(iso, sector)} :
          /\ iso' = r.self
          /\ ctorExc' = r.exc
          /\ pc' = IF r.exc # "" THEN "failed"
                   ELSE IF r.brk THEN "pathtable_init" ELSE "scan"
    /\ UNCHANGED <<files, l0, opened, ncalls, lastSelf, lastPath, lastOut>>
    /\ UNCHANGED <<softVars, dnsVars, genVars, upVars>>

\* l0 = self._pvd['path_table_size']; read the table
PathTableInit ==
    /\ pc = "pathtable_init"
    /\ IF "path_table_size" \notin DOMAIN iso.pvd
       THEN /\ pc' = "failed"
            /\ ctorExc' = "KeyError"
            /\ UNCHANGED <<iso, l0>>
       ELSE /\ l0' = iso.pvd["path_table_size"]
            /\ iso' = get_sector_file(iso, iso.pvd["path_table_l_loc"],
                                      iso.pvd["path_table_size"])
            /\ pc' = "pathtable"
            /\ UNCHANGED ctorExc
    /\ UNCHANGED <<files, sector, opened, ncalls, lastSelf, lastPath, lastOut>>
    /\ UNCHANGED <<softVars, dnsVars, genVars, upVars>>

\* one turn of while l0 > 0
PathTableEntry ==
    /\ pc = "pathtable"
    /\ l0 > 0
    /\ \E r \in {path_table_entry(iso)} :
          IF r.exc # ""
          THEN /\ iso' = r.self
               /\ pc' = "failed"
               /\ ctorExc' = r.exc
               /\ UNCHANGED l0
          ELSE /\ iso' = [r.self EXCEPT !.paths = Append(@, r.val.p)]
               /\ l0' = l0 - (8 + r.val.l1 + (r.val.l1 % 2))
               /\ UNCHANGED <<pc, ctorExc>>
    /\ UNCHANGED <<files, sector, opened, ncalls, lastSelf, lastPath, lastOut>>
    /\ UNCHANGED <<softVars, dnsVars, genVars, upVars>>

\* assert l0 == 0, the end of __init__
PathTableEnd ==
    /\ pc = "pathtable"
    /\ ~(l0 > 0)
    /\ IF iso.debug /\ l0 # 0
       THEN /\ pc' = "failed"
            /\ ctorExc' = "AssertionError"
            /\ UNCHANGED opened
       ELSE /\ pc' = "ready"
            /\ opened' = iso
            /\ UNCHANGED ctorExc
    /\ UNCHANGED <<files, iso, sector, l0, ncalls, lastSelf, lastPath, lastOut>>
    /\ UNCHANGED <<softVars, dnsVars, genVars, upVars>>

\* a call of get_file on the opened object
GetFile(pathname) ==
    /\ pc = "ready"
    /\ ncalls < MaxCalls
    /\ \E r \in {get_file(iso, pathname)} :
          /\ iso' = r.self
          /\ lastOut' = [val |-> r.val, exc |-> r.exc]
    /\ lastSelf' = iso
    /\ lastPath' = pathname
    /\ ncalls' = ncalls + 1
    /\ UNCHANGED <<files, pc, sector, l0, ctorExc, opened>>
    /\ UNCHANGED <<softVars, dnsVars, genVars, upVars>>

\* the directory records a caller has at hand: the root and the entries of
\* the path table
KnownDirs(self) == {self.root} \cup {self.paths[i] : i \in 1..Len(self.paths)}

\* caller k calls self._unpack_dir_children(d): a generator that has not run
\* (the callers take their generators in turn)
IterNew(k) ==
    /\ pc = "ready"
    /\ gens[k] = None
    /\ \A j \in 1..(k - 1) : gens[j] # None
    /\ \E d \in KnownDirs(iso) :
          gens' = [gens EXCEPT ![k] = [g |-> GenNew(d), out |-> <<>>, end |-> ""]]
    /\ UNCHANGED isoVars
    /\ UNCHANGED <<softVars, dnsVars, upVars>>

\* caller k asks its generator for the next child: the generator runs on
\* self._buff as it is now, up to its next yield, its end or an exception
IterNext(k) ==
    /\ pc = "ready"
    /\ gens[k] # None
    /\ gens[k].end = ""
    /\ \E n \in {GenNext(iso, gens[k].g)} :
          /\ iso' = n.self
          /\ gens' = [gens EXCEPT ![k] =
                        [g |-> n.g,
                         out |-> IF n.kind = "yield" THEN Append(@.out, n.stored)
                                 ELSE @.out,
                         end |-> IF n.kind = "yield" THEN ""
                                 ELSE IF n.kind = "stop" THEN "stop" ELSE n.exc]]
    /\ UNCHANGED <<files, pc, sector, l0, ctorExc, opened, ncalls, lastSelf, lastPath,
                   lastOut>>
    /\ UNCHANGED <<softVars, dnsVars, upVars>>


(***************************************************************************)
(* BigIpSoapApi against a device.  The device holds the uploaded images    *)
(* (devSoft, devHot: the file names in its software and hotfix lists) and  *)
(* devStatus, the entries of get_all_software_status by install volume:    *)
(* [active, pvb, status], pvb being the product/version/build installed    *)
(* there.  "base" and "hf" stand for the product/version/build that        *)
(* iso_info read from the software and the hotfix image.                   *)
(* params are the module's parameters; spc is where the running method     *)
(* stands, total and changed are its locals, calls the device calls that   *)
(* change the device, in order, and outcome what the method returned or    *)
(* raised.                                                                 *)
(***************************************************************************)

Volumes == {"HD1.1", "HD1.2", "HD1.3"}
NoHotfix == "None"
NoSoftware == "None"
NoVolume == "None"
STATES == {"absent", "activated", "installed", "present"}

Entry(active, pvb, status) == [active |-> active, pvb |-> pvb, status |-> status]

\* the device before the module runs: HD1.1 is the active volume
DeviceStates ==
    { [v \in {"HD1.1"} |-> Entry(TRUE, a, "complete")] : a \in {"other", "base"} }
      \cup { [v \in {"HD1.1", "HD1.2"} |->
                 IF v = "HD1.1" THEN Entry(TRUE, a, "complete")
                 ELSE Entry(FALSE, b, st)] :
             a \in {"other", "base"}, b \in {"other", "base", "hf"},
             st \in {"complete", "failed"} }

SoftInit ==
    /\ params \in [state : STATES, force : BOOLEAN, hotfix : {NoHotfix, "hf.iso"},
                   software : {NoSoftware, "sw.iso"}, volume : Volumes \cup {NoVolume}]
    /\ devSoft \in SUBSET {"sw.iso"}
    /\ devHot \in SUBSET {"hf.iso"}
    /\ devStatus \in DeviceStates
    /\ devBoot = NoVolume
    /\ spc = "start"
    /\ total = 0
    /\ changed = FALSE
    /\ calls = <<>>
    /\ outcome = "running"

\* the product/version/build of an image file, as iso_info returns it
Pvb(file) == IF file = "sw.iso" THEN "base" ELSE "hf"

\* read(): the images and the hotfixes on the device, counted
ImageCount == Cardinality(devSoft) + Cardinality(devHot)

is_hotfix_available(hotfix) == hotfix \in devHot
is_software_available(software) == software \in devSoft

get_active_volume ==
    IF \E v \in DOMAIN devStatus : devStatus[v].active
    THEN CHOOSE v \in DOMAIN devStatus : devStatus[v].active
    ELSE "None"

\* is some entry with this activity the software or the hotfix asked for
software_active(activity) ==
    \E v \in DOMAIN devStatus :
        /\ devStatus[v].active = activity
        /\ \/ params.hotfix # NoHotfix /\ devStatus[v].pvb = Pvb(params.hotfix)
           \/ devStatus[v].pvb = Pvb(params.software)

is_activated == software_active(TRUE)

is_installed == software_active(FALSE) /\ params.volume \in DOMAIN devStatus

\* an install call that always asks for the reboot
install_software_rebooting(pvb, reboot, create) ==
    [op |-> "install_software_image_v2", volume |-> params.volume, pvb |-> pvb,
     create_volume |-> create, reboot |-> TRUE]

\* the call install_software makes
install_software(pvb, reboot, create) ==
    [op |-> "install_software_image_v2", volume |-> params.volume, pvb |-> pvb,
     create_volume |-> create, reboot |-> reboot]

DeleteCall(file) == [op |-> "delete_software_image", file |-> file]
UploadCall(file) == [op |-> "upload_file", file |-> file]

\* the device after an install call: the volume is made if asked, and installs
DeviceInstall(status, c) ==
    IF c.volume \in DOMAIN status \/ c.create_volume
    THEN [v \in DOMAIN status \cup {c.volume} |->
            IF v = c.volume
            THEN Entry(IF v \in DOMAIN status THEN status[v].active ELSE FALSE,
                       c.pvb, "installing")
            ELSE status[v]]
    ELSE status

\* installed(): is_installed() / the active volume / go on
\* the volume the device reboots into once the install asked for ends well
DeviceBoot(boot, status, c) ==
    IF c.reboot /\ (c.volume \in DOMAIN status \/ c.create_volume) THEN c.volume ELSE boot

\* the device after a reboot into volume v
Rebooted(status, v) ==
    IF v \in DOMAIN status
    THEN [w \in DOMAIN status |-> [status[w] EXCEPT !.active = (w = v)]]
    ELSE status

\* flush(): activated and installed need a volume and a base image
FlushError ==
    IF params.state \in {"activated", "installed"}
    THEN IF params.volume = NoVolume THEN "NoVolumeError"
         ELSE IF params.software = NoSoftware THEN "NoBaseImageError" ELSE ""
    ELSE ""

FlushRaises ==
    /\ spc = "start"
    /\ FlushError # ""
    /\ spc' = "done"
    /\ outcome' = FlushError
    /\ UNCHANGED <<params, devSoft, devHot, devStatus, devBoot, total, changed, calls>>
    /\ UNCHANGED <<isoVars, dnsVars, genVars, upVars>>

InstalledStart ==
    /\ params.state = "installed"
    /\ spc = "start"
    /\ FlushError = ""
    /\ IF is_installed THEN spc' = "done" /\ outcome' = "False"
       ELSE IF params.volume = get_active_volume
       THEN spc' = "done" /\ outcome' = "ActiveVolumeError"
       ELSE spc' = "force" /\ UNCHANGED outcome
    /\ UNCHANGED <<params, devSoft, devHot, devStatus, total, changed, calls>>
    /\ UNCHANGED <<devBoot, isoVars, dnsVars, genVars, upVars>>

\* images = self.read(); the deletes of force
InstalledForce ==
    /\ params.state = "installed"
    /\ spc = "force"
    /\ LET dh == params.force /\ params.hotfix # NoHotfix
           ds == params.force
       IN  /\ devHot' = IF dh THEN devHot \ {params.hotfix} ELSE devHot
           /\ devSoft' = IF ds THEN devSoft \ {params.software} ELSE devSoft
           /\ calls' = calls \o (IF dh THEN <<DeleteCall(params.hotfix)>> ELSE <<>>)
                             \o (IF ds THEN <<DeleteCall(params.software)>> ELSE <<>>)
           /\ total' = ImageCount - (IF dh THEN 1 ELSE 0) - (IF ds THEN 1 ELSE 0)
           /\ changed' = (dh \/ ds)
           /\ spc' = IF dh \/ ds THEN "wait_deleted" ELSE "upload"
    /\ UNCHANGED <<params, devStatus, outcome>>
    /\ UNCHANGED <<devBoot, isoVars, dnsVars, genVars, upVars>>

\* wait_for_images(total) returns once the device lists total images
WaitImages(from, to) ==
    /\ spc = from
    /\ ImageCount = total
    /\ spc' = to
    /\ UNCHANGED <<params, devSoft, devHot, devStatus, total, calls, outcome>>
    /\ UNCHANGED <<devBoot, isoVars, dnsVars, genVars, upVars>>

\* wait_for_images(total) after the deletes; changed = False
WaitDeleted == WaitImages("wait_deleted", "upload") /\ changed' = FALSE

\* images = self.read(); the uploads of what the device does not list
InstalledUpload ==
    /\ params.state = "installed"
    /\ spc = "upload"
    /\ LET uh == params.hotfix # NoHotfix /\ ~is_hotfix_available(params.hotfix)
           us == ~is_software_available(params.software)
       IN  /\ devHot' = IF uh THEN devHot \cup {params.hotfix} ELSE devHot
           /\ devSoft' = IF us THEN devSoft \cup {params.software} ELSE devSoft
           /\ calls' = calls \o (IF uh THEN <<UploadCall(params.hotfix)>> ELSE <<>>)
                             \o (IF us THEN <<UploadCall(params.software)>> ELSE <<>>)
           /\ total' = ImageCount + (IF uh THEN 1 ELSE 0) + (IF us THEN 1 ELSE 0)
           /\ changed' = (uh \/ us)
           /\ spc' = IF uh \/ us THEN "wait_uploaded" ELSE "install"
    /\ UNCHANGED <<params, devStatus, outcome>>
    /\ UNCHANGED <<devBoot, isoVars, dnsVars, genVars, upVars>>

\* wait_for_images(total) after the uploads
WaitUploaded == WaitImages("wait_uploaded", "install") /\ UNCHANGED changed

\* the install of the base image, the volume created when the device has none
InstalledInstall ==
    /\ params.state = "installed"
    /\ spc = "install"
    /\ \E c \in {install_software(Pvb(params.software), FALSE,
                                  params.volume \notin DOMAIN devStatus)} :
          /\ calls' = Append(calls, c)
          /\ devStatus' = DeviceInstall(devStatus, c)
          /\ devBoot' = DeviceBoot(devBoot, devStatus, c)
    /\ spc' = "wait_base"
    /\ UNCHANGED <<params, devSoft, devHot, total, changed, outcome>>
    /\ UNCHANGED <<isoVars, dnsVars, genVars, upVars>>

\* wait_for_software_install: the statuses of the entries that are not active
Progress == {devStatus[v].status : v \in {w \in DOMAIN devStatus : ~devStatus[w].active}}

WaitInstall(from, to, result) ==
    /\ spc = from
    /\ \/ /\ "complete" \in Progress
          /\ spc' = to
          /\ outcome' = result
       \/ /\ "complete" \notin Progress
          /\ "failed" \in Progress
          /\ spc' = "done"
          /\ outcome' = "SoftwareInstallError"
    /\ UNCHANGED <<params, devSoft, devHot, devStatus, total, changed, calls>>
    /\ UNCHANGED <<devBoot, isoVars, dnsVars, genVars, upVars>>

\* wait_for_software_install() after the base image
WaitBase == WaitInstall("wait_base", "hotfix", "running")

\* if hotfix: the install of the hotfix
InstalledHotfix ==
    /\ params.state = "installed"
    /\ spc = "hotfix"
    /\ IF params.hotfix # NoHotfix
       THEN \E c \in {install_software(Pvb(params.hotfix), FALSE, FALSE)} :
               /\ calls' = Append(calls, c)
               /\ devStatus' = DeviceInstall(devStatus, c)
               /\ devBoot' = DeviceBoot(devBoot, devStatus, c)
       ELSE UNCHANGED <<calls, devStatus, devBoot>>
    /\ spc' = "wait_final"
    /\ UNCHANGED <<params, devSoft, devHot, total, changed, outcome>>
    /\ UNCHANGED <<isoVars, dnsVars, genVars, upVars>>

\* the last wait_for_software_install(), and return True
WaitFinal == WaitInstall("wait_final", "done", "True")

\* the device ends an installation, well or not; after one that ended well
\* it reboots into the volume if the install call asked for that
DeviceInstallEnds ==
    /\ \E v \in DOMAIN devStatus, st \in {"complete", "failed"} :
          /\ devStatus[v].status = "installing"
          /\ devStatus' = IF st = "complete" /\ devBoot = v
                          THEN Rebooted([devStatus EXCEPT ![v].status = st], v)
                          ELSE [devStatus EXCEPT ![v].status = st]
          /\ devBoot' = IF devBoot = v THEN NoVolume ELSE devBoot
    /\ UNCHANGED <<params, devSoft, devHot, spc, total, changed, calls, outcome>>
    /\ UNCHANGED <<isoVars, dnsVars, genVars, upVars>>

\* the deletes of force, of the hotfix and of the software if named
ForceDeletes ==
    (IF params.force /\ params.hotfix # NoHotfix THEN <<params.hotfix>> ELSE <<>>)
      \o (IF params.force /\ params.software # NoSoftware THEN <<params.software>> ELSE <<>>)

\* the image lists of the device after delete_software_image of the files
DeleteFrom(list, names) == list \ {names[i] : i \in 1..Len(names)}
UploadTo(list, names, mine) == list \cup ({names[i] : i \in 1..Len(names)} \cap mine)

DeleteCalls(names) == [i \in 1..Len(names) |-> DeleteCall(names[i])]
UploadCalls(names) == [i \in 1..Len(names) |-> UploadCall(names[i])]

\* set_cluster_boot_location(volume); reboot_system(seconds_to_reboot=1)
BootCalls ==
    << [op |-> "set_cluster_boot_location", volume |-> params.volume],
       [op |-> "reboot_system"] >>

\* activated(): already active / installed elsewhere, boot it / the active volume
ActivatedStart ==
    /\ params.state = "activated"
    /\ spc = "start"
    /\ FlushError = ""
    /\ IF is_activated /\ params.volume = get_active_volume
       THEN spc' = "done" /\ outcome' = "False" /\ UNCHANGED <<calls, devStatus>>
       ELSE IF is_installed /\ params.volume # get_active_volume
       THEN /\ calls' = calls \o BootCalls
            /\ devStatus' = Rebooted(devStatus, params.volume)
            /\ spc' = "a_wait_reboot"
            /\ UNCHANGED outcome
       ELSE IF params.volume = get_active_volume
       THEN spc' = "done" /\ outcome' = "ActiveVolumeError" /\ UNCHANGED <<calls, devStatus>>
       ELSE spc' = "a_force" /\ UNCHANGED <<outcome, calls, devStatus>>
    /\ UNCHANGED <<params, devSoft, devHot, devBoot, total, changed>>
    /\ UNCHANGED <<isoVars, dnsVars, genVars, upVars>>

\* images = self.read(); the deletes of force
ActivatedForce ==
    /\ params.state = "activated"
    /\ spc = "a_force"
    /\ \E del \in {ForceDeletes} :
          /\ devHot' = DeleteFrom(devHot, del)
          /\ devSoft' = DeleteFrom(devSoft, del)
          /\ calls' = calls \o DeleteCalls(del)
          /\ total' = ImageCount - Len(del)
          /\ changed' = (del # <<>>)
          /\ spc' = IF del # <<>> THEN "a_wait_deleted" ELSE "a_upload"
    /\ UNCHANGED <<params, devStatus, devBoot, outcome>>
    /\ UNCHANGED <<isoVars, dnsVars, genVars, upVars>>

\* if changed: wait_for_images(total); changed = False
WaitActivatedDeleted == WaitImages("a_wait_deleted", "a_upload") /\ changed' = FALSE

\* the uploads of what the device does not list
ActivatedUpload ==
    /\ params.state = "activated"
    /\ spc = "a_upload"
    /\ \E up \in {(IF params.hotfix # NoHotfix /\ ~is_hotfix_available(params.hotfix)
                   THEN <<params.hotfix>> ELSE <<>>)
                    \o (IF ~is_software_available(params.software)
                        THEN <<params.software>> ELSE <<>>)} :
          /\ devHot' = UploadTo(devHot, up, {params.hotfix} \ {NoHotfix})
          /\ devSoft' = UploadTo(devSoft, up, {params.software})
          /\ calls' = calls \o UploadCalls(up)
          /\ total' = total + Len(up)
          /\ changed' = (up # <<>>)
          /\ spc' = IF up # <<>> THEN "a_wait_uploaded" ELSE "a_install"
    /\ UNCHANGED <<params, devStatus, devBoot, outcome>>
    /\ UNCHANGED <<isoVars, dnsVars, genVars, upVars>>

WaitActivatedUploaded == WaitImages("a_wait_uploaded", "a_install") /\ UNCHANGED changed

\* the install of the base image: with a hotfix to follow it does not reboot
ActivatedInstall ==
    /\ params.state = "activated"
    /\ spc = "a_install"
    /\ \E c \in {install_software(Pvb(params.software), params.hotfix = NoHotfix,
                                  params.volume \notin DOMAIN devStatus)} :
          /\ calls' = Append(calls, c)
          /\ devStatus' = DeviceInstall(devStatus, c)
          /\ devBoot' = DeviceBoot(devBoot, devStatus, c)
    /\ spc' = IF params.hotfix # NoHotfix THEN "a_wait_base" ELSE "a_wait_final"
    /\ UNCHANGED <<params, devSoft, devHot, total, changed, outcome>>
    /\ UNCHANGED <<isoVars, dnsVars, genVars, upVars>>

WaitActivatedBase == WaitInstall("a_wait_base", "a_hotfix", "running")

\* self.install_software(photfix, reboot=True, create=False)
ActivatedHotfix ==
    /\ params.state = "activated"
    /\ spc = "a_hotfix"
    /\ \E c \in {install_software(Pvb(params.hotfix), TRUE, FALSE)} :
          /\ calls' = Append(calls, c)
          /\ devStatus' = DeviceInstall(devStatus, c)
          /\ devBoot' = DeviceBoot(devBoot, devStatus, c)
    /\ spc' = "a_wait_final"
    /\ UNCHANGED <<params, devSoft, devHot, total, changed, outcome>>
    /\ UNCHANGED <<isoVars, dnsVars, genVars, upVars>>

WaitActivatedFinal == WaitInstall("a_wait_final", "a_wait_reboot", "running")

\* wait_for_reboot(): until the volume is among the active ones; return True
WaitReboot ==
    /\ spc = "a_wait_reboot"
    /\ params.volume \in {v \in DOMAIN devStatus : devStatus[v].active}
    /\ spc' = "done"
    /\ outcome' = "True"
    /\ UNCHANGED <<params, devSoft, devHot, devStatus, devBoot, total, changed, calls>>
    /\ UNCHANGED <<isoVars, dnsVars, genVars, upVars>>

\* wait_for_images(total); return True
WaitImagesReturn(from) ==
    /\ spc = from
    /\ ImageCount = total
    /\ spc' = "done"
    /\ outcome' = "True"
    /\ UNCHANGED <<params, devSoft, devHot, devStatus, devBoot, total, changed, calls>>
    /\ UNCHANGED <<isoVars, dnsVars, genVars, upVars>>

\* present(): images = self.read(); the deletes of force
PresentForce ==
    /\ params.state = "present"
    /\ spc = "start"
    /\ \E del \in {ForceDeletes} :
          /\ devHot' = DeleteFrom(devHot, del)
          /\ devSoft' = DeleteFrom(devSoft, del)
          /\ calls' = calls \o DeleteCalls(del)
          /\ total' = ImageCount - Len(del)
          /\ changed' = (del # <<>>)
          /\ spc' = IF del # <<>> THEN "p_wait_deleted" ELSE "p_upload"
    /\ UNCHANGED <<params, devStatus, devBoot, outcome>>
    /\ UNCHANGED <<isoVars, dnsVars, genVars, upVars>>

WaitPresentDeleted == WaitImages("p_wait_deleted", "p_upload") /\ UNCHANGED changed

\* each named image is on the device: present() has nothing to do
AllAvailable ==
    IF params.hotfix # NoHotfix /\ params.software # NoSoftware
    THEN is_software_available(params.software) /\ is_hotfix_available(params.hotfix)
    ELSE IF params.hotfix # NoHotfix THEN is_hotfix_available(params.hotfix)
    ELSE IF params.software # NoSoftware THEN is_software_available(params.software)
    ELSE FALSE

\* the named images, the hotfix first
Named ==
    (IF params.hotfix # NoHotfix THEN <<params.hotfix>> ELSE <<>>)
      \o (IF params.software # NoSoftware THEN <<params.software>> ELSE <<>>)

\* present(): return False, or the upload of every named image
PresentUpload ==
    /\ params.state = "present"
    /\ spc = "p_upload"
    /\ IF AllAvailable
       THEN /\ spc' = "done"
            /\ outcome' = "False"
            /\ UNCHANGED <<devHot, devSoft, calls, total>>
       ELSE /\ devHot' = UploadTo(devHot, Named, {params.hotfix} \ {NoHotfix})
            /\ devSoft' = UploadTo(devSoft, Named, {params.software} \ {NoSoftware})
            /\ calls' = calls \o UploadCalls(Named)
            /\ total' = total + Len(Named)
            /\ spc' = "p_wait_uploaded"
            /\ UNCHANGED outcome
    /\ UNCHANGED <<params, devStatus, devBoot, changed>>
    /\ UNCHANGED <<isoVars, dnsVars, genVars, upVars>>

WaitPresentUploaded == WaitImagesReturn("p_wait_uploaded")

\* an absent() that never finds it has nothing to do
NoneAvailable_never == FALSE

\* none of the named images is on the device: absent() has nothing to do
NoneAvailable ==
    IF params.hotfix # NoHotfix /\ params.software # NoSoftware
    THEN ~is_software_available(params.software) /\ ~is_hotfix_available(params.hotfix)
    ELSE IF params.hotfix # NoHotfix THEN ~is_hotfix_available(params.hotfix)
    ELSE IF params.software # NoSoftware THEN ~is_software_available(params.software)
    ELSE FALSE

\* absent(): return False, or the delete of every named image
AbsentDelete ==
    /\ params.state = "absent"
    /\ spc = "start"
    /\ IF NoneAvailable
       THEN /\ spc' = "done"
            /\ outcome' = "False"
            /\ UNCHANGED <<devHot, devSoft, calls, total>>
       ELSE /\ devHot' = DeleteFrom(devHot, Named)
            /\ devSoft' = DeleteFrom(devSoft, Named)
            /\ calls' = calls \o DeleteCalls(Named)
            /\ total' = ImageCount - Len(Named)
            /\ spc' = "ab_wait_deleted"
            /\ UNCHANGED outcome
    /\ UNCHANGED <<params, devStatus, devBoot, changed>>
    /\ UNCHANGED <<isoVars, dnsVars, genVars, upVars>>

WaitAbsentDeleted == WaitImagesReturn("ab_wait_deleted")

(***************************************************************************)
(* bigip_device_dns, state present.  A list is a sequence of names.  The   *)
(* device keeps nameServers and search as lists, and the forwarders as the *)
(* db value dns.proxy.__iter__, names joined by ' ': the model keeps the   *)
(* names that value.split(' ') gives, <<"">> for the empty value.  A read  *)
(* may be answered with a status other than 200.                           *)
(***************************************************************************)
ToSet(list) == {list[i] : i \in 1..Len(list)}

\* list(set(l)): the members once each, in an order the build picks
ListOfSet(S) ==
    {l \in [1..Cardinality(S) -> S] : \A i, j \in 1..Cardinality(S) : l[i] = l[j] => i = j}

\* lists of at most two of the names, none twice
ListsOver(S) ==
    {<<>>} \cup {<<a>> : a \in S} \cup {l \in {<<a, b>> : a, b \in S} : l[1] # l[2]}

DnsInit ==
    /\ dnsParams \in [append : BOOLEAN,
                      nameservers : ListsOver({"ns1", "ns2"}),
                      search_domains : ListsOver({"dom1"}),
                      forwarders : {<<>>, <<"fw1">>, <<"fw1", "fw2">>},
                      ip_version : {"None", "6"},
                      cache : {"None", "enable"}]
    /\ dnsDev \in [nameServers : ListsOver({"ns1", "ns2"}),
                   search : ListsOver({"dom1"}),
                   forwarders : {<<"">>, <<"fw1">>, <<"fw2">>},
                   ip_version : {"4"},
                   cache : {"disable"}]
    /\ dnsStatus \in [dns : {200, 503}, forwarders : {200, 503}]
    /\ dnsCurrent = EmptyDict
    /\ dnsPc = "start"
    /\ dnsSent = <<>>
    /\ dnsChanged = FALSE

\* _read_dns(): nothing when the answer is not 200
read_dns ==
    IF dnsStatus.dns = 200
    THEN Put(Put(Put(EmptyDict, "nameservers", dnsDev.nameServers),
                 "search_domains", dnsDev.search),
             "ip_version", dnsDev.ip_version)
    ELSE EmptyDict

\* Python's None where a list is expected: no list is equal to it
NoneList == <<"None">>

\* _read_forwarders(): None when the answer is not 200
read_forwarders == IF dnsStatus.forwarders = 200 THEN dnsDev.forwarders ELSE NoneList

\* main(): append needs one of the lists
DnsMainFails ==
    /\ dnsPc = "start"
    /\ dnsParams.append
    /\ dnsParams.nameservers = <<>> /\ dnsParams.forwarders = <<>>
    /\ dnsParams.search_domains = <<>>
    /\ dnsPc' = "failed"
    /\ UNCHANGED <<dnsParams, dnsDev, dnsStatus, dnsCurrent, dnsSent, dnsChanged>>
    /\ UNCHANGED <<isoVars, softVars, genVars, upVars>>

\* present(): current = self.read()
DnsRead ==
    /\ dnsPc = "start"
    /\ ~(dnsParams.append /\ dnsParams.nameservers = <<>> /\ dnsParams.forwarders = <<>>
           /\ dnsParams.search_domains = <<>>)
    /\ dnsCurrent' = Put(Put(read_dns, "cache", dnsDev.cache), "forwarders", read_forwarders)
    /\ dnsPc' = "present_dns"
    /\ UNCHANGED <<dnsParams, dnsDev, dnsStatus, dnsSent, dnsChanged>>
    /\ UNCHANGED <<isoVars, softVars, genVars, upVars>>

\* what is to be sent for one list: <<>> for nothing, else <<the list>>
ListPayloads(req, key, current, append) ==
    IF req # <<>> /\ append
    THEN IF key \in DOMAIN current
         THEN IF ~(ToSet(req) \subseteq ToSet(current[key]))
              THEN {<<l>> : l \in ListOfSet(ToSet(current[key] \o req))}
              ELSE {<<>>}
         ELSE {<<req>>}
    ELSE IF req # <<>>
    THEN IF key \in DOMAIN current /\ current[key] # req THEN {<<req>>}
         ELSE IF key \notin DOMAIN current THEN {<<req>>}
         ELSE {<<>>}
    ELSE {<<>>}

\* the 'include' to be sent for the IP version
IncludePayload(current) ==
    IF "ip_version" \in DOMAIN current /\ current["ip_version"] # dnsParams.ip_version
    THEN IF dnsParams.ip_version = "6" THEN << "options inet6" >>
         ELSE IF dnsParams.ip_version = "4" THEN << "" >> ELSE <<>>
    ELSE <<>>

\* the payload of the keys that have something to send
Payload(ns, sd, inc) ==
    [k \in (IF ns # <<>> THEN {"nameServers"} ELSE {})
             \cup (IF sd # <<>> THEN {"search"} ELSE {})
             \cup (IF inc # <<>> THEN {"include"} ELSE {}) |->
        IF k = "nameServers" THEN ns[1] ELSE IF k = "search" THEN sd[1] ELSE inc[1]]

\* the device after PATCH /mgmt/tm/sys/dns
DnsPatched(dev, payload) ==
    [dev EXCEPT !.nameServers = IF "nameServers" \in DOMAIN payload
                                THEN payload["nameServers"] ELSE @,
                !.search = IF "search" \in DOMAIN payload THEN payload["search"] ELSE @,
                !.ip_version = IF "include" \in DOMAIN payload
                               THEN (IF payload["include"] = "options inet6" THEN "6" ELSE "4")
                               ELSE @]

\* _present_dns(current)
DnsPresentDns ==
    /\ dnsPc = "present_dns"
    /\ \E ns \in ListPayloads(dnsParams.nameservers, "nameservers", dnsCurrent,
                              dnsParams.append),
          sd \in ListPayloads(dnsParams.search_domains, "search_domains", dnsCurrent,
                              dnsParams.append) :
         \E payload \in {Payload(ns, sd, IncludePayload(dnsCurrent))} :
            IF DOMAIN payload # {}
            THEN /\ dnsSent' = Append(dnsSent, [uri |-> "sys/dns", payload |-> payload])
                 /\ dnsDev' = DnsPatched(dnsDev, payload)
                 /\ dnsChanged' = TRUE
            ELSE UNCHANGED <<dnsSent, dnsDev, dnsChanged>>
    /\ dnsPc' = "present_forwarders"
    /\ UNCHANGED <<dnsParams, dnsStatus, dnsCurrent>>
    /\ UNCHANGED <<isoVars, softVars, genVars, upVars>>

\* _present_forwarders(current): set(None) raises TypeError
DnsPresentForwarders ==
    /\ dnsPc = "present_forwarders"
    /\ IF dnsParams.forwarders # <<>> /\ dnsParams.append
          /\ dnsCurrent["forwarders"] = NoneList
       THEN /\ dnsPc' = "TypeError"
            /\ UNCHANGED <<dnsSent, dnsDev, dnsChanged>>
       ELSE /\ \E fw \in ListPayloads(dnsParams.forwarders, "forwarders", dnsCurrent,
                                      dnsParams.append) :
                 IF fw # <<>>
                 THEN /\ dnsSent' = Append(dnsSent, [uri |-> "sys/db/dns.proxy.__iter__",
                                                     payload |-> [value |-> fw[1]]])
                      /\ dnsDev' = [dnsDev EXCEPT !.forwarders = fw[1]]
                      /\ dnsChanged' = TRUE
                 ELSE UNCHANGED <<dnsSent, dnsDev, dnsChanged>>
            /\ dnsPc' = "present_cache"
    /\ UNCHANGED <<dnsParams, dnsStatus, dnsCurrent>>
    /\ UNCHANGED <<isoVars, softVars, genVars, upVars>>

\* _present_cache(current); if changed: self.save(); return changed
DnsPresentCache ==
    /\ dnsPc = "present_cache"
    /\ \E send \in {dnsParams.cache # "None" /\ dnsCurrent["cache"] # dnsParams.cache} :
         \E msgs \in {(IF send THEN << [uri |-> "sys/db/dns.cache",
                                        payload |-> [value |-> dnsParams.cache]] >>
                       ELSE <<>>)} :
            /\ dnsDev' = IF send THEN [dnsDev EXCEPT !.cache = dnsParams.cache] ELSE dnsDev
            /\ dnsChanged' = (dnsChanged \/ send)
            /\ dnsSent' = dnsSent \o msgs
                            \o (IF dnsChanged \/ send
                                THEN << [uri |-> "sys/config", payload |-> [command |-> "save"]] >>
                                ELSE <<>>)
    /\ dnsPc' = "done"
    /\ UNCHANGED <<dnsParams, dnsStatus, dnsCurrent>>
    /\ UNCHANGED <<isoVars, softVars, genVars, upVars>>

\* the reader and the device part each stand still while the other runs
IsoIdle ==
    /\ files = EmptyDict
    /\ iso = None
    /\ pc = "idle"
    /\ sector = 0
    /\ l0 = 0
    /\ ctorExc = ""
    /\ opened = None
    /\ ncalls = 0
    /\ lastSelf = None
    /\ lastPath = <<>>
    /\ lastOut = NoOut

SoftIdle ==
    /\ params = None
    /\ devSoft = {}
    /\ devHot = {}
    /\ devStatus = EmptyDict
    /\ devBoot = NoVolume
    /\ spc = "idle"
    /\ total = 0
    /\ changed = FALSE
    /\ calls = <<>>
    /\ outcome = "idle"

DnsIdle ==
    /\ dnsParams = None
    /\ dnsDev = None
    /\ dnsStatus = None
    /\ dnsCurrent = EmptyDict
    /\ dnsPc = "idle"
    /\ dnsSent = <<>>
    /\ dnsChanged = FALSE

\* the callers that may hold a generator
Callers == 1..2

GenIdle == gens = [k \in Callers |-> None]

UpIdle ==
    /\ upSize = 0
    /\ upPos = 0
    /\ upFirst = TRUE
    /\ upDone = FALSE
    /\ upSent = <<>>
    /\ upPc = "idle"

vars == <<isoVars, softVars, dnsVars, genVars, upVars>>

Init == IsoInit /\ SoftIdle /\ DnsIdle /\ GenIdle /\ UpIdle

Next ==
    \/ ScanStep
    \/ PathTableInit
    \/ PathTableEntry
    \/ PathTableEnd
    \/ \E pathname \in PathNames : GetFile(pathname)

Spec == Init /\ [][Next]_vars

\* the constructor is sequential code: its scan loop takes its next turn
SpecScan == Init /\ [][Next]_vars /\ WF_vars(ScanStep)

\* callers that hold generators over one object and advance them in any order
NextIter ==
    \/ ScanStep
    \/ PathTableInit
    \/ PathTableEntry
    \/ PathTableEnd
    \/ \E k \in Callers : IterNew(k)
    \/ \E k \in Callers : IterNext(k)

SpecIter == Init /\ [][NextIter]_vars

InitSoft == SoftInit /\ IsoIdle /\ DnsIdle /\ GenIdle /\ UpIdle

NextSoft ==
    \/ FlushRaises
    \/ InstalledStart
    \/ InstalledForce
    \/ WaitDeleted
    \/ InstalledUpload
    \/ WaitUploaded
    \/ InstalledInstall
    \/ WaitBase
    \/ InstalledHotfix
    \/ WaitFinal
    \/ ActivatedStart
    \/ ActivatedForce
    \/ WaitActivatedDeleted
    \/ ActivatedUpload
    \/ WaitActivatedUploaded
    \/ ActivatedInstall
    \/ WaitActivatedBase
    \/ ActivatedHotfix
    \/ WaitActivatedFinal
    \/ WaitReboot
    \/ PresentForce
    \/ WaitPresentDeleted
    \/ PresentUpload
    \/ WaitPresentUploaded
    \/ AbsentDelete
    \/ WaitAbsentDeleted
    \/ DeviceInstallEnds

SpecSoft == InitSoft /\ [][NextSoft]_vars

\* the module runs on: a step that can be taken is taken, and a wait polls
\* the device again until what it waits for is there
SpecSoftFair == InitSoft /\ [][NextSoft]_vars /\ WF_vars(NextSoft)

InitDns == DnsInit /\ IsoIdle /\ SoftIdle /\ GenIdle /\ UpIdle

NextDns ==
    \/ DnsMainFails
    \/ DnsRead
    \/ DnsPresentDns
    \/ DnsPresentForwarders
    \/ DnsPresentCache

SpecDns == InitDns /\ [][NextDns]_vars

(***************************************************************************)
(* upload(filename): the file is read in pieces of CHUNK_SIZE bytes, each  *)
(* piece is base64-encoded and sent with a chain_type.  The model keeps    *)
(* the size of the file, the read position and, for each chunk sent, its   *)
(* chain_type, the number of bytes read and the length of the text.        *)
(***************************************************************************)
CHUNK_SIZE == 524288

\* the largest number of whole pieces in a file of the model
MaxChunks == 3

\* sizes around the lengths at which a piece reads or encodes differently
SizeOffsets == {0, 1, 2, 3, 393212, 393213, 393214, 393215, 524287}

FileSizes == {k * CHUNK_SIZE + o : k \in 0..MaxChunks, o \in SizeOffsets}

\* len(base64.b64encode(data)) for n bytes of data
B64Len(n) == 4 * ((n + 2) \div 3)

\* len(fh.read(CHUNK_SIZE)) at position pos of a file of size bytes
ReadLen(size, pos) == IF size - pos < CHUNK_SIZE THEN size - pos ELSE CHUNK_SIZE

UpInit ==
    /\ upSize \in FileSizes
    /\ upPos = 0
    /\ upFirst = TRUE
    /\ upDone = FALSE
    /\ upSent = <<>>
    /\ upPc = "loop"

\* one turn of while not done: read, encode, pick the chain_type, upload_file
UploadChunk ==
    /\ upPc = "loop"
    /\ ~upDone
    /\ \E n \in {ReadLen(upSize, upPos)} :
          \E text \in {B64Len(n)} :
             /\ upPos' = upPos + n
             /\ upFirst' = FALSE
             /\ upDone' = (~upFirst /\ text < CHUNK_SIZE)
             /\ upSent' = Append(upSent,
                   [chain_type |-> IF upFirst
                                   THEN IF text < CHUNK_SIZE THEN "FILE_FIRST_AND_LAST"
                                        ELSE "FILE_FIRST"
                                   ELSE IF text < CHUNK_SIZE THEN "FILE_LAST"
                                        ELSE "FILE_MIDDLE",
                    read |-> n, text |-> text])
    /\ UNCHANGED <<upSize, upPc>>
    /\ UNCHANGED <<isoVars, softVars, dnsVars, genVars>>

\* done is set: the loop and the with block end
UploadReturn ==
    /\ upPc = "loop"
    /\ upDone
    /\ upPc' = "done"
    /\ UNCHANGED <<upSize, upPos, upFirst, upDone, upSent>>
    /\ UNCHANGED <<isoVars, softVars, dnsVars, genVars>>

InitUp == UpInit /\ IsoIdle /\ SoftIdle /\ DnsIdle /\ GenIdle

NextUp == UploadChunk \/ UploadReturn

SpecUpload == InitUp /\ [][NextUp]_vars

\* upload() runs on: the turn of the loop that can be taken is taken
SpecUploadFair == InitUp /\ [][NextUp]_vars /\ WF_vars(NextUp)

(***************************************************************************)
(* What the claims are measured against: the bytes of the store, and the   *)
(* record a path leads to, by get_file's own resolution and by the walk    *)
(* from the root alone.                                                    *)
(***************************************************************************)
StoreBytes(url, off, n) == [i \in 1..n |-> ByteAt(url, off + i - 1)]

LE32(url, off) ==
    ByteAt(url, off) + 256 * ByteAt(url, off + 1) + 65536 * ByteAt(url, off + 2)
      + 16777216 * ByteAt(url, off + 3)

BE32(url, off) ==
    16777216 * ByteAt(url, off) + 65536 * ByteAt(url, off + 1) + 256 * ByteAt(url, off + 2)
      + ByteAt(url, off + 3)

Segs(pathname) == Split(Strip(Upper(pathname), 47), 47)

\* the record found in the directory a resolution ended in
FileIn(p, name) ==
    IF p.exc # "" THEN R(p.self, None, p.exc) ELSE search_dir_children(p.self, p.val, name)

\* the record get_file reads the extent of
Resolve(self, pathname) ==
    LET segs == Segs(pathname)
    IN  FileIn(ParentDir(self, SubSeq(segs, 1, Len(segs) - 1)), segs[Len(segs)])

\* the record the walk from the root, segment by segment, ends at
WalkFile(self, pathname) ==
    LET segs == Segs(pathname)
    IN  FileIn(dir_record_by_root(self, SubSeq(segs, 1, Len(segs) - 1)), segs[Len(segs)])

\* the image is as ISO 9660 has it and the store holds all of it
WellFormed(url) ==
    LET p == ImageParams[url]
    IN  /\ p.vds \in {"plain", "extra"}
        /\ p.size = (IF p.wide = "no" THEN FullSize ELSE WideSize)
        /\ p.wide \in {"no", "pad"}
        /\ p.withZ
        /\ p.ptLE = PtLen(TRUE) /\ p.ptBE = PtLen(TRUE)
        /\ p.metaLenLE = p.metaLenBE

\* no sector of the store from sector 16 on begins with 255
NoTerminator(url) ==
    \A s \in 16..((files[url].size - 1) \div SECTOR_SIZE) : ByteAt(url, s * SECTOR_SIZE) # 255

\* the volume descriptors are whole, and the declared size of the path table
\* is not where its entries end, or the store ends before they do
TableCut(url) ==
    LET p == ImageParams[url]
    IN  /\ p.vds \in {"plain", "extra"}
        /\ p.ptLE = p.ptBE
        /\ \/ p.ptLE # PtLen(p.withZ)
           \/ p.size < Lay.pt * SECTOR_SIZE + PtLen(p.withZ)

\* the directories the object knows: the root and the path-table entries
Dirs(self) ==
    {self.root} \cup {Put(self.paths[i], "ex_len", SECTOR_SIZE) : i \in 1..Len(self.paths)}

\* a stored name N;digits, and its N
Versioned(stored) ==
    \E k \in 2..(Len(stored) - 1) :
        /\ stored[k] = 59
        /\ \A j \in 1..(k - 1) : stored[j] # 59
        /\ \A j \in (k + 1)..Len(stored) : stored[j] \in 48..57

BaseName(stored) ==
    SubSeq(stored, 1, (CHOOSE k \in 1..Len(stored) : stored[k] = 59
                                   /\ \A j \in 1..(k - 1) : stored[j] # 59) - 1)

(***************************************************************************)
(* The claims.                                                             *)
(***************************************************************************)

\* C1: for any image and any path that resolves to a file record f, get_file
\* returns exactly f.ex_len bytes, the bytes of the backing store at offsets
\* f.ex_loc*2048 up to f.ex_loc*2048 + f.ex_len, in order and unmodified.
C1_ExactExtent ==
    ncalls >= 1 =>
      LET f == Resolve(lastSelf, lastPath)
      IN  f.exc = "" =>
            /\ lastOut.exc = ""
            /\ lastOut.val = StoreBytes(iso.url, f.val["ex_loc"] * SECTOR_SIZE,
                                        f.val["ex_len"])

\* C2: for every path with at least one directory segment, if the walk from
\* the root directory record, segment by segment, reaches a directory whose
\* children include the requested filename, then get_file succeeds and
\* returns that file's bytes, whatever the table-based strategy found first.
C2_WalkReachable ==
    (ncalls >= 1 /\ Len(Segs(lastPath)) >= 2) =>
      LET w == WalkFile(lastSelf, lastPath)
      IN  w.exc = "" =>
            /\ lastOut.exc = ""
            /\ lastOut.val = ReadExtent(w.self, w.val).val

\* C3: for every well-formed image and every path that names no file in it,
\* get_file raises ISO9660IOError and never any other error.
C3_NotFoundOnly ==
    (ncalls >= 1 /\ WellFormed(iso.url)
       /\ WalkFile(lastSelf, lastPath).exc = "ISO9660IOError")
      => lastOut.exc = "ISO9660IOError"

\* C4: a sector read yields exactly the length asked for or fails; get_file
\* on a file whose extent reaches past the end of the backing store fails and
\* never returns a shorter byte string.
C4_NoPartialRead ==
    ncalls >= 1 =>
      LET f == Resolve(lastSelf, lastPath)
      IN  (f.exc = "" /\ f.val["ex_loc"] * SECTOR_SIZE + f.val["ex_len"]
                           > files[iso.url].size)
            => lastOut.exc # ""

\* C5: a both-endian integer decodes to v only if its little-endian half and
\* its big-endian half both hold v; if the halves differ the decode fails and
\* yields no value.  Stated of the PVD's path_table_size: an opened image has
\* a primary volume descriptor in the sectors scanned whose two halves both
\* hold the decoded size.
C5_BothHalvesAgree ==
    pc = "ready" =>
      \E s \in 16..(sector - 1) :
          /\ ByteAt(iso.url, s * SECTOR_SIZE) = 1
          /\ LE32(iso.url, s * SECTOR_SIZE + 132) = opened.pvd["path_table_size"]
          /\ BE32(iso.url, s * SECTOR_SIZE + 136) = opened.pvd["path_table_size"]

\* C6: if the backing store ends before any sector from sector 16 on carries
\* type byte 255, opening the image fails with the corruption error (the
\* assertion) and with no other error kind, and yields no usable image.
C6_NoTerminatorCorrupt ==
    NoTerminator(iso.url) =>
      /\ pc # "ready"
      /\ pc = "failed" => ctorExc = "AssertionError"

\* C7: after an image is opened the byte lengths of the decoded path-table
\* entries add up to the declared path_table_size (nothing of it remains);
\* when the entries do not end at the declared size or the table is
\* truncated, opening fails with the corruption error (the assertion).
C7_TableAccounting ==
    /\ pc = "ready" => l0 = 0
    /\ TableCut(iso.url) =>
         /\ pc # "ready"
         /\ pc = "failed" => ctorExc = "AssertionError"

\* C8: for every directory record whose stored name is N followed by ';' and
\* a version number, the child iterator exposes the name N, and a lookup for
\* N in that directory succeeds with a record stored as N;version, that one
\* or one before it.  Stated of every directory of the object as opened and
\* as a get_file call leaves it.
C8_VersionStripped ==
    (pc = "ready" /\ ncalls <= 1) =>
      \A d \in Dirs(iso) :
        LET ls == unpack_dir_children(iso, d).children
        IN  \A i \in 1..Len(ls) :
              Versioned(ls[i].stored) =>
                /\ ls[i].data["name"] = BaseName(ls[i].stored)
                /\ LET hit == search_dir_children(iso, d, BaseName(ls[i].stored))
                   IN  /\ hit.exc = ""
                       /\ \E j \in 1..i : /\ hit.val = ls[j].data
                                          /\ Versioned(ls[j].stored)
                                          /\ BaseName(ls[j].stored) = BaseName(ls[i].stored)

\* a lookup of H in /Z, where H;2 and H;1 are stored, gave the bytes of H;2
C8_Witness ==
    /\ pc = "ready"
    /\ lastPath = Join(<<nmZ, nmH>>)
    /\ lastOut = [val |-> <<72, 51>>, exc |-> ""]

\* C9: over an unchanged backing store the outcome of get_file(p), the bytes
\* returned or the error, is after any sequence of earlier get_file calls the
\* same as on the freshly opened object.
C9_Pure ==
    ncalls >= 1 =>
      \E fresh \in {get_file(opened, lastPath)} :
          lastOut = [val |-> fresh.val, exc |-> fresh.exc]

\* a second call found its file after a call that left the object changed
C9_Witness ==
    /\ ncalls >= 2
    /\ lastSelf # opened
    /\ lastOut.exc = ""
    /\ lastOut.val # <<>>

\* C10: in state 'installed' the device is never rebooted into the new
\* software: every install_software call of installed() has reboot=False and
\* neither set_cluster_boot_location nor reboot_system is called.
C10_InstalledNeverReboots ==
    params.state = "installed" =>
      \A i \in 1..Len(calls) :
          /\ calls[i].op \notin {"set_cluster_boot_location", "reboot_system"}
          /\ calls[i].op = "install_software_image_v2" => calls[i].reboot = FALSE

\* installed() returned True after the install of the base image and of the hotfix
C10_Witness ==
    /\ params.state = "installed"
    /\ spc = "done"
    /\ outcome = "True"
    /\ \E i, j \in 1..Len(calls) :
          /\ i < j
          /\ calls[i].op = "install_software_image_v2" /\ calls[i].pvb = "base"
          /\ calls[j].op = "install_software_image_v2" /\ calls[j].pvb = "hf"

\* C11: with force=no an image is uploaded only if the device does not list
\* it: in present(), installed() and activated() no upload call is made for a
\* software or hotfix image that the device lists as available at that point.
C11_UploadOnlyMissing ==
    [][ ~params.force =>
          \A i \in (Len(calls) + 1)..Len(calls') :
              calls'[i].op = "upload_file" => calls'[i].file \notin (devSoft \cup devHot) ]_vars

OnlyAdds(sent, had, req) ==
    /\ (ToSet(had) \cup ToSet(req)) \subseteq ToSet(sent)
    /\ ~(ToSet(req) \subseteq ToSet(had))

\* C13: with append=yes and state=present every nameServers / search /
\* forwarders value sent to the device contains every entry that was on the
\* device before and every requested entry, and nothing is sent for a list
\* whose requested entries are all on the device already.
C13_AppendOnlyAdds ==
    [][ dnsParams.append =>
          \A i \in (Len(dnsSent) + 1)..Len(dnsSent') :
             LET m == dnsSent'[i]
             IN  /\ (m.uri = "sys/dns" /\ "nameServers" \in DOMAIN m.payload)
                      => OnlyAdds(m.payload["nameServers"], dnsDev.nameServers,
                                  dnsParams.nameservers)
                 /\ (m.uri = "sys/dns" /\ "search" \in DOMAIN m.payload)
                      => OnlyAdds(m.payload["search"], dnsDev.search,
                                  dnsParams.search_domains)
                 /\ m.uri = "sys/db/dns.proxy.__iter__"
                      => OnlyAdds(m.payload["value"], dnsDev.forwarders,
                                  dnsParams.forwarders) ]_vars

\* the directory segments of a requested path
DirSegs(pathname) == SubSeq(Segs(pathname), 1, Len(Segs(pathname)) - 1)

\* entry e is named path[n], its parent path[n-1], and so on up to an entry
\* named path[1] whose parent is the root entry
RECURSIVE ChainToRoot(_, _, _, _)
ChainToRoot(paths, e, path, n) ==
    /\ n >= 1
    /\ e["name"] = path[n]
    /\ IF n = 1 THEN e["parent"] = 1
       ELSE /\ e["parent"] \in 2..Len(paths)
            /\ ChainToRoot(paths, paths[e["parent"]], path, n - 1)

\* C14: when the table-based strategy returns a path-table entry for the
\* directory path s1/.../sn of a get_file call, the entry is named sn, its
\* parent s(n-1), and so on up to an entry named s1 whose parent is the root
\* entry: the ancestor names are the requested segments and the depth is n.
C14_TableChainComplete ==
    (ncalls >= 1 /\ DirSegs(lastPath) # <<>>) =>
      LET t == dir_record_by_table(lastSelf, DirSegs(lastPath))
      IN  t.exc = "" =>
            ChainToRoot(lastSelf.paths, t.val, DirSegs(lastPath), Len(DirSegs(lastPath)))

\* the names the child iterator yields for directory record d
ChildNames(self, d) ==
    LET l == unpack_dir_children(self, d).children
    IN  {l[i].data["name"] : i \in 1..Len(l)}

\* C15: on a well-formed image, for every directory path on which the
\* table-based and the walk-based strategy both succeed, both resolve to the
\* same extent location and the child iterator yields the same child names.
C15_StrategiesAgree ==
    (ncalls >= 1 /\ WellFormed(iso.url) /\ DirSegs(lastPath) # <<>>) =>
      LET t == dir_record_by_table(lastSelf, DirSegs(lastPath))
          w == dir_record_by_root(lastSelf, DirSegs(lastPath))
      IN  (t.exc = "" /\ w.exc = "") =>
            /\ t.val["ex_loc"] = w.val["ex_loc"]
            /\ ChildNames(t.self, t.val) = ChildNames(w.self, w.val)

\* the sectors from 16 on that come before the first one of type 255
BeforeTerminator(url) ==
    {s \in 16..((files[url].size - 1) \div SECTOR_SIZE) :
        \A t \in 16..s : ByteAt(url, t * SECTOR_SIZE) # 255}

\* the type-1 sectors of the volume descriptor set
PrimarySectors(url) == {s \in BeforeTerminator(url) : ByteAt(url, s * SECTOR_SIZE) = 1}

\* the object after decoding the descriptor of sector s into a new object
DecodedFrom(url, debug, s) ==
    unpack_pvd(unpack(get_sector_file(NewIso(url, debug), s, SECTOR_SIZE), "B").self).self

\* C16: once the scan is over, the retained PVD fields and root directory
\* record are those decoded from the first type-1 sector between sector 16 and
\* the terminator; later type-1 sectors do not replace them.
C16_FirstPvdWins ==
    (pc \in {"pathtable_init", "pathtable", "ready"} /\ PrimarySectors(iso.url) # {}) =>
      LET first == CHOOSE s \in PrimarySectors(iso.url) :
                      \A t \in PrimarySectors(iso.url) : s <= t
          d == DecodedFrom(iso.url, iso.debug, first)
      IN  /\ iso.pvd = d.pvd
          /\ iso.root = d.root
          /\ iso.root["ex_loc"] = LE32(iso.url, first * SECTOR_SIZE + 158)

\* the leading type byte of sector s of the store, -1 past its end
TypeByte(url, s) ==
    IF s * SECTOR_SIZE < files[url].size THEN ByteAt(url, s * SECTOR_SIZE) ELSE -1

\* C17: the volume-descriptor scan reads sectors 16, 17, 18, ... one per
\* turn in increasing order; it reads no sector after the first one of type
\* 255; a sector of a type other than 1 and 255 leaves the retained PVD and
\* root record as they were; and on a well-formed image the scan ends, at the
\* first sector of type 255.
C17_ScanInOrder ==
    /\ [][ pc = "scan" =>
             /\ sector' = sector + 1
             /\ iso'.buff.start = sector * SECTOR_SIZE
             /\ TypeByte(iso.url, sector) \notin {1, 255}
                  => (iso'.pvd = iso.pvd /\ iso'.root = iso.root /\ pc' # "pathtable_init")
         ]_vars
    /\ [](/\ sector >= 16
          /\ \A t \in 16..(sector - 2) : TypeByte(iso.url, t) # 255
          /\ pc \in {"pathtable_init", "pathtable", "ready"}
               => TypeByte(iso.url, sector - 1) = 255)
    /\ (WellFormed(iso.url) => <>(pc = "pathtable_init"))

\* the scan of the image with descriptors of types 0, 1, 2 and 255 has ended
C17_Witness ==
    /\ pc = "pathtable_init"
    /\ ImageParams[iso.url].vds = "extra"
    /\ sector = 20
    /\ iso.root # None

\* The turns of the while loop of _unpack_dir_children(d), in order: each is
\* [at, to, null, sector, data]: the consumed-byte counter at the loop's test
\* and after the turn, whether the record decoded was null, the sector in the
\* buffer, the record, and the offsets in the store of the buffer's cursor
\* before and after the turn.  end is how the iteration ended.
RECURSIVE TurnsLoop(_, _, _)
TurnsLoop(self, g, acc) ==
    IF ~(g.read < g.ex_len) THEN [turns |-> acc, end |-> "stop", read |-> g.read]
    ELSE Bind([g EXCEPT !.sector = IF g.read % 2048 = 0 THEN @ + 1 ELSE @],
              LAMBDA g1 :
         Bind(unpack_record(IF g.read % 2048 = 0
                            THEN get_sector_file(self, g1.sector, 2048) ELSE self,
                            g.read),
              LAMBDA r :
                IF r.exc # "" THEN [turns |-> acc, end |-> "raise", read |-> g.read]
                ELSE IF r.data = None
                THEN Bind(SkipPadding(r.self, r.read),
                          LAMBDA sk :
                            TurnsLoop(sk.self, [g1 EXCEPT !.read = sk.read],
                                      Append(acc, [at |-> g.read, to |-> sk.read,
                                                   null |-> TRUE, sector |-> g1.sector,
                                                   data |-> None,
                                                   from |-> r.self.buff.start
                                                              + r.self.buff.pos - 1,
                                                   cur |-> sk.self.buff.start
                                                             + sk.self.buff.pos])))
                ELSE TurnsLoop(r.self, [g1 EXCEPT !.read = r.read],
                               Append(acc, [at |-> g.read, to |-> r.read, null |-> FALSE,
                                            sector |-> g1.sector, data |-> r.data,
                                            from |-> IF g.read % 2048 = 0
                                                     THEN g1.sector * SECTOR_SIZE
                                                     ELSE self.buff.start + self.buff.pos,
                                            cur |-> r.self.buff.start
                                                      + r.self.buff.pos]))))

Turns(self, d) ==
    Bind(unpack_record(get_sector_file(self, d["ex_loc"], 2048), 0),
         LAMBDA r_self :
           IF r_self.exc # "" \/ r_self.data = None
           THEN [turns |-> <<>>, end |-> "raise", read |-> r_self.read]
           ELSE Bind(unpack_record(r_self.self, r_self.read),
                     LAMBDA r_parent :
                       IF r_parent.exc # ""
                       THEN [turns |-> <<>>, end |-> "raise", read |-> r_parent.read]
                       ELSE TurnsLoop(r_parent.self,
                                      [GenNew(d) EXCEPT !.started = TRUE,
                                                        !.sector = d["ex_loc"],
                                                        !.read = r_parent.read,
                                                        !.ex_len = r_self.data["ex_len"]],
                                      <<>>)))

\* the root directory and the directories among its children
ListedDirs(self) ==
    LET l == unpack_dir_children(self, self.root).children
    IN  {self.root} \cup {l[i].data : i \in {j \in 1..Len(l) : l[j].data["flags"] = 2}}

\* C18: in the child iterator, a null record met before the extent length is
\* reached advances the consumed-byte counter to exactly the next multiple of
\* 2048 and yields no child, and the next record is decoded from the first
\* byte of the next sector of the extent.
C18_NullSkipsToBoundary ==
    pc = "ready" =>
      \A d \in ListedDirs(iso) :
         LET t == Turns(iso, d).turns
         IN  \A i \in 1..Len(t) :
                t[i].null =>
                  /\ t[i].to = ((t[i].at \div 2048) + 1) * 2048
                  /\ i < Len(t) =>
                       /\ t[i + 1].at = t[i].to
                       /\ t[i + 1].sector = d["ex_loc"] + (t[i].to \div 2048)

\* the offsets in the store of the records of one sector of a directory, from
\* offset o of the sector on: records follow one another up to a null byte or
\* the end of the sector
RECURSIVE SectorRecords(_, _, _)
SectorRecords(url, base, o) ==
    IF o >= SECTOR_SIZE \/ ByteAt(url, base + o) = 0 THEN <<>>
    ELSE <<base + o>> \o SectorRecords(url, base, o + ByteAt(url, base + o))

\* the offsets of the records of the extent at sector loc, in extent order;
\* its length is the one its first record declares
ExtentRecords(url, loc) ==
    LET n == (LE32(url, loc * SECTOR_SIZE + 10) + SECTOR_SIZE - 1) \div SECTOR_SIZE
    IN  Concat([k \in 1..n |-> SectorRecords(url, (loc + k - 1) * SECTOR_SIZE, 0)])

\* the name the record at offset a stores
StoredName(url, a) == StoreBytes(url, a + 33, ByteAt(url, a + 32))

\* the extent at sector loc, of the length its first record declares, lies
\* within the store
ExtentInStore(url, loc) ==
    /\ loc * SECTOR_SIZE + 34 <= files[url].size
    /\ loc * SECTOR_SIZE + LE32(url, loc * SECTOR_SIZE + 10) <= files[url].size

\* C19: for every directory the child iterator yields exactly the non-null
\* records of the extent that follow its first two records ("." and ".."),
\* in extent order, across all sectors of the extent; the first two records
\* are never among the children.  An iteration that a corrupt record ends
\* with an exception has yielded the records before it.
C19_ChildrenAfterDots ==
    pc = "ready" =>
      \A d \in {dd \in ListedDirs(iso) : ExtentInStore(iso.url, dd["ex_loc"])} :
         LET l == unpack_dir_children(iso, d)
             e == ExtentRecords(iso.url, d["ex_loc"])
         IN  /\ Len(l.children) <= Len(e) - 2
             /\ l.exc = "" => Len(l.children) = Len(e) - 2
             /\ \A i \in 1..Len(l.children) :
                   /\ l.children[i].stored = StoredName(iso.url, e[i + 2])
                   /\ l.children[i].data["ex_loc"] = LE32(iso.url, e[i + 2] + 2)
                   /\ l.children[i].stored \notin {nmSelf, nmParent}

C22_TablesNeverMutated ==
    (pc = "ready" /\ ncalls >= 1) =>
      /\ iso.pvd = opened.pvd
      /\ iso.root = opened.root
      /\ Len(iso.paths) = Len(opened.paths)
      /\ \A i \in 1..Len(iso.paths) :
            /\ DOMAIN iso.paths[i] = DOMAIN opened.paths[i]
            /\ \A k \in DOMAIN opened.paths[i] : iso.paths[i][k] = opened.paths[i][k]

\* the stored names _unpack_dir_children(d) yields when nothing else runs on
\* the object, and how it ends
Alone(self, d) ==
    LET l == unpack_dir_children(self, d)
    IN  [out |-> [i \in 1..Len(l.children) |-> l.children[i].stored],
         end |-> IF l.exc = "" THEN "stop" ELSE l.exc]

\* C21: child iterations on one object advanced in any interleaved order
\* each yield what they yield when run alone: at every moment an iteration
\* has yielded a prefix of that sequence, and once it has ended it has
\* yielded all of it and ended the same way.
C21_IterationsIndependent ==
    pc = "ready" =>
      \A k \in Callers :
         gens[k] # None =>
           \A a \in {Alone(opened, gens[k].g.d)} :
              /\ Len(gens[k].out) <= Len(a.out)
              /\ gens[k].out = SubSeq(a.out, 1, Len(gens[k].out))
              /\ gens[k].end # "" => (gens[k].out = a.out /\ gens[k].end = a.end)

\* C23: in the child iterator, decoding a non-null record of declared length
\* L moves the cursor by exactly L bytes and returns the previous position
\* plus L, so that after the record the consumed-byte counter is the offset
\* of the cursor within the extent.  (Looked at before and after the first
\* get_file call.)
C23_CounterIsCursor ==
    (pc = "ready" /\ ncalls <= 1) =>
      \A d \in ListedDirs(iso) :
         \A T \in {Turns(iso, d)} :
            \A i \in 1..Len(T.turns) :
               \A t \in {T.turns[i]} :
                  ~t.null =>
                    /\ t.to - t.at \in 1..255
                    /\ t.cur = d["ex_loc"] * SECTOR_SIZE + t.to

\* the install calls among the calls made
InstallCalls(cs) == SelectSeq(cs, LAMBDA c : c.op = "install_software_image_v2")

\* the software or the hotfix asked for is what the volume v holds
RequestedOn(v) ==
    /\ v \in DOMAIN devStatus
    /\ \/ devStatus[v].pvb = Pvb(params.software)
       \/ params.hotfix # NoHotfix /\ devStatus[v].pvb = Pvb(params.hotfix)

\* every install call a step makes names a volume that is not the active one
InstallsSpareActive ==
    \A i \in (Len(calls) + 1)..Len(calls') :
       calls'[i].op = "install_software_image_v2"
          => calls'[i].volume # get_active_volume

\* the first step of activated() or installed() with a volume and a base
\* image named, the volume being the active one and not holding what is asked
StartsOnActive ==
    /\ params.state \in {"activated", "installed"}
    /\ spc = "start" /\ spc' # "start"
    /\ FlushError = ""
    /\ params.volume = get_active_volume
    /\ ~RequestedOn(params.volume)

C24_InstallsSpareActive == [][InstallsSpareActive]_vars

\* C24: activated() and installed() make an install call only for a volume
\* that is not the active one, and when the volume asked for is the active
\* one and does not hold the software or hotfix asked for, the operation
\* ends with ActiveVolumeError without having made any call.
C24_NeverInstallActive ==
    [][/\ InstallsSpareActive
       /\ StartsOnActive => (outcome' = "ActiveVolumeError" /\ calls' = <<>>)]_vars

\* activated() was asked for a base image and a hotfix
WithHotfix == params.state = "activated" /\ FlushError = "" /\ params.hotfix # NoHotfix

\* the install calls of activated() with a hotfix, in their order
HotfixPlan(create) ==
    << [op |-> "install_software_image_v2", volume |-> params.volume,
        pvb |-> Pvb(params.software), create_volume |-> create, reboot |-> FALSE],
       [op |-> "install_software_image_v2", volume |-> params.volume,
        pvb |-> Pvb(params.hotfix), create_volume |-> FALSE, reboot |-> TRUE] >>

\* the install calls made so far are the first ones of the plan, and the
\* waits come between and after them
FollowsPlan ==
    WithHotfix =>
      \A ic \in {InstallCalls(calls)} :
         /\ \E create \in BOOLEAN :
               \E n \in 0..2 : ic = SubSeq(HotfixPlan(create), 1, n)
         /\ spc = "a_wait_base" => Len(ic) = 1
         /\ spc \in {"a_hotfix"} => Len(ic) = 1
         /\ spc = "a_wait_final" => Len(ic) = 2
         /\ (spc = "done" /\ outcome = "True") =>
               /\ Len(ic) \in {0, 2}
               /\ devStatus[params.volume].active

\* the step that issues the install of the hotfix finds the installation of
\* the base image on the volume completed
HotfixAfterBase ==
    (WithHotfix /\ Len(InstallCalls(calls')) = 2 /\ Len(InstallCalls(calls)) = 1)
       => /\ params.volume \in DOMAIN devStatus
          /\ devStatus[params.volume].pvb = Pvb(params.software)
          /\ devStatus[params.volume].status = "complete"

\* the first step of activated() when the active volume is the one asked for
\* and holds the base image asked for
AlreadyActive ==
    /\ params.state = "activated" /\ FlushError = ""
    /\ spc = "start" /\ spc' # "start"
    /\ params.volume \in DOMAIN devStatus
    /\ devStatus[params.volume].active
    /\ devStatus[params.volume].pvb = Pvb(params.software)

C25_PlanFollowed == []FollowsPlan

C25_AlreadyActiveUnchanged ==
    [][AlreadyActive => (outcome' = "False" /\ calls' = <<>>
                           /\ UNCHANGED <<devSoft, devHot, devStatus, devBoot>>)]_vars

\* C25: activated() with a hotfix installs the base image without reboot,
\* waits, installs the hotfix with reboot, waits, and waits for the volume
\* to be active, in that order; the install of the hotfix is issued only
\* once the installation of the base image on the volume has completed; and
\* when the base image asked for is already active on the volume asked for,
\* activated() returns False without a call that changes the device.
C25_HotfixAfterBase ==
    /\ []FollowsPlan
    /\ [][HotfixAfterBase]_vars
    /\ [][AlreadyActive => (outcome' = "False" /\ calls' = <<>>
                              /\ UNCHANGED <<devSoft, devHot, devStatus, devBoot>>)]_vars

\* present() or absent() is inside a wait_for_images(total)
WaitingForImages == spc \in {"p_wait_deleted", "p_wait_uploaded", "ab_wait_deleted"}

C26_CountExpected == [](WaitingForImages => total = ImageCount)

C26_Returns == (params.state \in {"present", "absent"}) => <>(spc = "done")

\* C26: whatever the parameters and the images on the device, the count
\* present() and absent() hand to wait_for_images is the number of images
\* the device holds after the deletes and uploads made, and the operation
\* returns.
C26_PresentAbsentReturn ==
    /\ [](WaitingForImages => total = ImageCount)
    /\ (params.state \in {"present", "absent"}) => <>(spc = "done")

\* the chain_type values sent, in order
ChainTypes == [i \in 1..Len(upSent) |-> upSent[i].chain_type]

WellFormedChain(c) ==
    \/ c = <<"FILE_FIRST_AND_LAST">>
    \/ /\ Len(c) >= 2
       /\ c[1] = "FILE_FIRST"
       /\ c[Len(c)] = "FILE_LAST"
       /\ \A i \in 2..(Len(c) - 1) : c[i] = "FILE_MIDDLE"

NothingAfterLast(c) ==
    \A i \in 1..(Len(c) - 1) : c[i] \notin {"FILE_FIRST_AND_LAST", "FILE_LAST"}

C27_Terminates == <>(upPc = "done")

\* every byte of the file is read once, in order, in pieces of at most CHUNK_SIZE
C27_AllBytesSent ==
    /\ \A i \in 1..Len(upSent) : upSent[i].read \in 0..CHUNK_SIZE
    /\ upPc = "done" => upPos = upSize

\* a file whose first piece encodes to CHUNK_SIZE characters or more gets a
\* well-formed chain
C27_LongFirstPiece ==
    (upPc = "done" /\ B64Len(ReadLen(upSize, 0)) >= CHUNK_SIZE)
       => (WellFormedChain(ChainTypes) /\ NothingAfterLast(ChainTypes))

\* C27: for every file size the chain_type values upload() sends are the
\* single FILE_FIRST_AND_LAST, or FILE_FIRST, any number of FILE_MIDDLE and
\* one FILE_LAST at the end; no chunk follows a FILE_FIRST_AND_LAST or a
\* FILE_LAST; and the loop ends.
C27_ChunkChain ==
    /\ [](NothingAfterLast(ChainTypes))
    /\ [](upPc = "done" => WellFormedChain(ChainTypes))
    /\ <>(upPc = "done")
====
